---- MODULE Spec2Model ----
(***************************************************************************)
(* GhostLink: two nodes, each running the control loop of main.rs with its *)
(* MessageManager, the UDP handshake of handshake.rs, the AEAD framing of  *)
(* crypto.rs and the shared AppState of shared_state.rs.                   *)
(*                                                                         *)
(* Time is counted in ticks of the handshake's 500 ms send interval.       *)
(* A public key is a positive integer naming the key pair it belongs to;   *)
(* the X25519 shared secret of two key pairs is the unordered pair of      *)
(* their names, so it is the same whichever side computes it.              *)
(***************************************************************************)
EXTENDS Integers, Sequences, FiniteSets, TLC

\* ---------------------------------------------------------------- bounds
\* handshake timeout (timeout_secs), in ticks
TimeoutTicks == 3
\* key pairs generated in one run (handshake attempts of both nodes together)
MaxKeys == 2
\* the same, in the runs that follow a failed attempt by a new one
MaxRetryKeys == 3
\* encryptions per session
MaxNonce == 2
\* commands waiting on one command channel
MaxQueue == 2
\* datagrams of the third party waiting in the sockets
MaxForged == 1
\* STUN requests of one keep-alive ticker
MaxStun == 1

\* ------------------------------------------------------------- constants
\* linger phase: Duration::from_secs(1), two 500 ms ticks
LingerTicks == 2
NoKey == 0
NoAddr == 0
NoDeadline == 0 - 1

Nodes == {1, 2}
\* the address of a third party: any other host that can send datagrams
ThirdParty == 3
Addrs == Nodes \cup {ThirdParty}
Modes == {"ChaCha20Poly1305", "Aes256Gcm"}
\* the address of a host that is not the peer of the handshake it disturbs
Attacker == 5
\* public keys the third party puts in its frames
ThirdPartyKeys == {101, 102}
\* the descriptor UdpSocket::bind returns to the control loop
ClientFd == 3
NoFd == 0
\* the descriptors a process can hold
Fds == ClientFd .. (ClientFd + 2)
\* the address of the STUN server
StunServer == 4
\* the reflexive address a STUN server reports for a node
PublicAddrs == {11}
\* the addresses the second STUN server can see the node at
VerifierAddrs == PublicAddrs \cup {12}

VARIABLES
  status,      \* AppState.status of each node
  peer_ip,     \* AppState.peer_ip of each node
  cfg_mode,    \* the encryption mode each node hands to handshake
  cmd_q,       \* the command channel of each node (cmd_tx -> cmd_rx)
  pc,          \* where each control loop is: "idle", "hs", "exited"
  hs,          \* the local variables of each node's (latest) handshake
  mgr,         \* the MessageManager of each node
  net,         \* datagrams waiting in each node's UDP socket
  kcp,         \* frames waiting in each node's reliable stream
  next_key,    \* the next key pair KeyPair::generate will produce
  enc_log,     \* every (secret, nonce) an encryption has used
  nonce_reused,\* an encryption used a (secret, nonce) already in enc_log
  hist,        \* per node: encryptions and decryptions done since the session
               \* was installed
  fds,         \* per node: the open descriptors of the process and the one
               \* the reliable stream owns
  public_ip,   \* AppState.public_ip of each node
  stun_tx,     \* per node: the STUN requests sent so far; the latest one's
               \* number is its transaction id
  nat_type,    \* AppState.nat_type of each node
  last         \* per node: the handler that ran last, what it returned and
               \* the kinds of events it published

vars == <<status, peer_ip, cfg_mode, cmd_q, pc, hs, mgr, net, kcp,
          next_key, enc_log, nonce_reused, hist, fds, public_ip, stun_tx,
          nat_type, last>>

\* the variables only the STUN client touches
stun_vars == <<public_ip, stun_tx, nat_type>>

\* the variables only encryption and decryption touch
crypto_vars == <<enc_log, nonce_reused, hist>>

\* ------------------------------------------------------------ wire format
\* bincode of HandshakeMsg: the variant tag, then the fields
ModeByte(m) == IF m = "ChaCha20Poly1305" THEN 0 ELSE 1

ByteMode(b) == IF b = 0 THEN "ChaCha20Poly1305" ELSE "Aes256Gcm"

Syn(public_key, cipher_mode) ==
  [kind |-> "Syn", public_key |-> public_key, cipher_mode |-> cipher_mode]

SynAck(public_key) ==
  [kind |-> "SynAck", public_key |-> public_key, cipher_mode |-> "-"]

Bye == [kind |-> "Bye", public_key |-> NoKey, cipher_mode |-> "-"]

Invalid == [kind |-> "Invalid", public_key |-> NoKey, cipher_mode |-> "-"]

Serialize(msg) ==
  CASE msg.kind = "Syn" -> <<0, msg.public_key, ModeByte(msg.cipher_mode)>>
    [] msg.kind = "SynAck" -> <<1, msg.public_key>>
    [] OTHER -> <<2>>

Deserialize(bytes) ==
  CASE Len(bytes) = 3 /\ bytes[1] = 0 /\ bytes[3] \in {0, 1} ->
         Syn(bytes[2], ByteMode(bytes[3]))
    [] Len(bytes) = 2 /\ bytes[1] = 1 -> SynAck(bytes[2])
    [] Len(bytes) = 1 /\ bytes[1] = 2 -> Bye
    [] OTHER -> Invalid

Datagram(src, msg) == [src |-> src, bytes |-> Serialize(msg)]

\* ----------------------------------------------------------------- crypto
Min(a, b) == IF a <= b THEN a ELSE b

Max(a, b) == IF a <= b THEN b ELSE a

NoCipher == [secret |-> {}, algo |-> "None"]

derive_session_Unsorted(private_key, peer_public_bytes, mode, my_public_bytes) ==
  [cipher |-> [secret |-> {private_key, peer_public_bytes}, algo |-> mode],
   fingerprint |-> <<my_public_bytes, peer_public_bytes>>]

\* derive_session: ECDH, then the cipher of the chosen mode and the fingerprint
\* over the two public keys in sorted order
derive_session(private_key, peer_public_bytes, mode, my_public_bytes) ==
  [cipher |-> [secret |-> {private_key, peer_public_bytes}, algo |-> mode],
   fingerprint |-> <<Min(my_public_bytes, peer_public_bytes),
                     Max(my_public_bytes, peer_public_bytes)>>]

\* CipherAlgo::encrypt: the nonce is the counter
encrypt(cipher, nonce_val, plaintext) ==
  [secret |-> cipher.secret, algo |-> cipher.algo, nonce |-> nonce_val,
   pt |-> plaintext]

\* CipherAlgo::decrypt: the tag verifies under the same key, algorithm and nonce
DecryptOk(cipher, nonce_val, ciphertext) ==
  /\ ciphertext.secret = cipher.secret
  /\ ciphertext.algo = cipher.algo
  /\ ciphertext.nonce = nonce_val

decrypt_NextNonce(cipher, nonce_val, ciphertext) ==
  IF DecryptOk(cipher, nonce_val + 1, ciphertext)
    THEN [plaintext |-> ciphertext.pt, err |-> "none"]
    ELSE [plaintext |-> <<>>, err |-> "Decryption failure"]

\* CipherAlgo::decrypt: the plaintext when the tag verifies
decrypt(cipher, nonce_val, ciphertext) ==
  IF DecryptOk(cipher, nonce_val, ciphertext)
    THEN [plaintext |-> ciphertext.pt, err |-> "none"]
    ELSE [plaintext |-> <<>>, err |-> "Decryption failure"]

\* -------------------------------------------------------------- handshake
NoHandshake ==
  [peer_addr |-> NoAddr, my_pub |-> NoKey, peer_pub_key |-> NoKey,
   received_syn_ack |-> FALSE, sent_syn_ack |-> FALSE,
   linger_until |-> NoDeadline, elapsed |-> 0, tick_due |-> FALSE,
   key_ignored |-> FALSE, sender_ignored |-> FALSE, result |-> "none"]

\* (key_ignored records that the last thing the handshake did was to drop a
\* frame for its key, sender_ignored that it was to drop a datagram for its
\* sender; result how it returned)
\* the locals of handshake on entry: fresh keys, nothing received, the send
\* interval's first tick due at once
NewHandshake(peer_addr, key) ==
  [NoHandshake EXCEPT !.peer_addr = peer_addr, !.my_pub = key,
                      !.tick_due = TRUE]

\* what one pass through a select! branch did: the locals after it, the frames
\* it sent to peer_addr, the error it bailed with ("none": it did not)
Step(h, reply, err) == [h |-> h, reply |-> reply, err |-> err]

\* the frame is dropped: "Ignoring ... with different key"
IgnoreKey(h) == Step([h EXCEPT !.key_ignored = TRUE], {}, "none")

KeyChangedNever(existing, public_key) == FALSE

\* the key-pinning test of the Syn and SynAck branches
KeyChanged(existing, public_key) ==
  existing # NoKey /\ existing # public_key

OnSynSilent(h, my_mode, public_key, cipher_mode) ==
  IF KeyChanged(h.peer_pub_key, public_key)
    THEN IgnoreKey(h)
    ELSE LET h1 == [h EXCEPT !.peer_pub_key = public_key] IN
         IF cipher_mode # my_mode
           THEN Step(h1, {}, "ModeMismatch")
           ELSE Step([h1 EXCEPT !.sent_syn_ack = TRUE], {}, "none")

OnSynAnyMode(h, my_mode, public_key, cipher_mode) ==
  IF KeyChanged(h.peer_pub_key, public_key)
    THEN IgnoreKey(h)
    ELSE Step([h EXCEPT !.peer_pub_key = public_key, !.sent_syn_ack = TRUE],
              {SynAck(h.my_pub)}, "none")

OnSynBeforeLinger(h, my_mode, public_key, cipher_mode) ==
  IF KeyChanged(h.peer_pub_key, public_key)
    THEN IgnoreKey(h)
    ELSE LET h1 == [h EXCEPT !.peer_pub_key = public_key] IN
         IF cipher_mode # my_mode
           THEN Step(h1, {}, "ModeMismatch")
         ELSE IF h.linger_until # NoDeadline
           THEN Step(h1, {}, "none")
           ELSE Step([h1 EXCEPT !.sent_syn_ack = TRUE],
                     {SynAck(h.my_pub)}, "none")

\* the Syn arm: key pinning, then the mode check, then the SynAck reply
OnSyn(h, my_mode, public_key, cipher_mode) ==
  IF KeyChanged(h.peer_pub_key, public_key)
    THEN IgnoreKey(h)
    ELSE LET h1 == [h EXCEPT !.peer_pub_key = public_key] IN
         IF cipher_mode # my_mode
           THEN Step(h1, {}, "ModeMismatch")
           ELSE Step([h1 EXCEPT !.sent_syn_ack = TRUE],
                     {SynAck(h.my_pub)}, "none")

OnSynAckSetsBoth(h, public_key) ==
  IF KeyChanged(h.peer_pub_key, public_key)
    THEN IgnoreKey(h)
    ELSE Step([h EXCEPT !.peer_pub_key = public_key,
                        !.received_syn_ack = TRUE,
                        !.sent_syn_ack = TRUE], {}, "none")

\* the SynAck arm: key pinning, then received_syn_ack
OnSynAck(h, public_key) ==
  IF KeyChanged(h.peer_pub_key, public_key)
    THEN IgnoreKey(h)
    ELSE Step([h EXCEPT !.peer_pub_key = public_key,
                        !.received_syn_ack = TRUE], {}, "none")

IgnoreSender_Restarts(h) ==
  Step([h EXCEPT !.sender_ignored = TRUE, !.elapsed = 0], {}, "none")

\* the datagram is dropped: "Ignored packet from unknown sender"
IgnoreSender(h) == Step([h EXCEPT !.sender_ignored = TRUE], {}, "none")

OnDatagram_AnySender(h, my_mode, d) ==
  LET h0 == [h EXCEPT !.key_ignored = FALSE, !.sender_ignored = FALSE]
      msg == Deserialize(d.bytes)
  IN CASE msg.kind = "Syn" ->
            OnSyn(h0, my_mode, msg.public_key, msg.cipher_mode)
       [] msg.kind = "SynAck" -> OnSynAck(h0, msg.public_key)
       [] msg.kind = "Bye" -> Step(h0, {}, "Rejected")
       [] OTHER -> Step(h0, {}, "none")

OnDatagram_ByeBeforeLinger(h, my_mode, d) ==
  LET h0 == [h EXCEPT !.key_ignored = FALSE, !.sender_ignored = FALSE] IN
  IF d.src # h.peer_addr
    THEN IgnoreSender(h0)
    ELSE LET msg == Deserialize(d.bytes) IN
         CASE msg.kind = "Syn" ->
                OnSyn(h0, my_mode, msg.public_key, msg.cipher_mode)
           [] msg.kind = "SynAck" -> OnSynAck(h0, msg.public_key)
           [] msg.kind = "Bye" ->
                Step(h0, {}, IF h.linger_until = NoDeadline THEN "Rejected"
                                                             ELSE "none")
           [] OTHER -> Step(h0, {}, "none")

\* the recv_from branch of select!
OnDatagram(h, my_mode, d) ==
  LET h0 == [h EXCEPT !.key_ignored = FALSE, !.sender_ignored = FALSE] IN
  IF d.src # h.peer_addr
    THEN IgnoreSender(h0)
    ELSE LET msg == Deserialize(d.bytes) IN
         CASE msg.kind = "Syn" ->
                OnSyn(h0, my_mode, msg.public_key, msg.cipher_mode)
           [] msg.kind = "SynAck" -> OnSynAck(h0, msg.public_key)
           [] msg.kind = "Bye" -> Step(h0, {}, "Rejected")
           [] OTHER -> Step(h0, {}, "none")

OnTick_WithSynAck(h, my_mode) ==
  LET h1 == [h EXCEPT !.tick_due = FALSE, !.key_ignored = FALSE,
                      !.sender_ignored = FALSE] IN
  IF h.linger_until # NoDeadline
    THEN Step(h1, IF h.sent_syn_ack THEN {SynAck(h.my_pub)} ELSE {}, "none")
    ELSE IF ~h.received_syn_ack
           THEN Step(h1, {Syn(h.my_pub, my_mode), SynAck(h.my_pub)}, "none")
           ELSE Step(h1, {}, "none")

OnTick_AlwaysSyn(h, my_mode) ==
  LET h1 == [h EXCEPT !.tick_due = FALSE, !.key_ignored = FALSE,
                      !.sender_ignored = FALSE] IN
  IF h.linger_until # NoDeadline
    THEN Step(h1, IF h.sent_syn_ack THEN {SynAck(h.my_pub)} ELSE {}, "none")
    ELSE Step(h1, {Syn(h.my_pub, my_mode)}, "none")

\* the send_interval.tick() branch of select!
OnTick(h, my_mode) ==
  LET h1 == [h EXCEPT !.tick_due = FALSE, !.key_ignored = FALSE,
                      !.sender_ignored = FALSE] IN
  IF h.linger_until # NoDeadline
    THEN Step(h1, IF h.sent_syn_ack THEN {SynAck(h.my_pub)} ELSE {}, "none")
    ELSE IF ~h.received_syn_ack
           THEN Step(h1, {Syn(h.my_pub, my_mode)}, "none")
           ELSE Step(h1, {}, "none")

\* elapsed > timeout
TimedOut(h) == h.elapsed > TimeoutTicks

LogicalSuccessEither(h) == h.received_syn_ack \/ h.sent_syn_ack

\* received_syn_ack && sent_syn_ack
LogicalSuccess(h) == h.received_syn_ack /\ h.sent_syn_ack

\* Instant::now() >= deadline
LingerOver(h) == h.elapsed >= h.linger_until

LoopTop_LingerFirst(h) ==
  IF h.linger_until # NoDeadline /\ LingerOver(h)
    THEN [h |-> h, outcome |-> "ok"]
  ELSE IF TimedOut(h) THEN [h |-> h, outcome |-> "Timeout"]
  ELSE IF h.linger_until # NoDeadline
    THEN [h |-> h, outcome |-> "continue"]
  ELSE IF LogicalSuccess(h)
    THEN [h |-> [h EXCEPT !.linger_until = h.elapsed + LingerTicks],
          outcome |-> "continue"]
  ELSE [h |-> h, outcome |-> "continue"]

\* the head of the loop, run after every branch: the timeout first, then the
\* linger phase (entering it goes round the loop once more)
LoopTop(h) ==
  IF TimedOut(h) THEN [h |-> h, outcome |-> "Timeout"]
  ELSE IF h.linger_until # NoDeadline
    THEN [h |-> h, outcome |-> IF LingerOver(h) THEN "ok" ELSE "continue"]
  ELSE IF LogicalSuccess(h)
    THEN [h |-> [h EXCEPT !.linger_until = h.elapsed + LingerTicks],
          outcome |-> "continue"]
  ELSE [h |-> h, outcome |-> "continue"]

\* handshake has returned: its timers are gone; what it pinned and how it
\* ended is kept for the record
Returned(h, result) ==
  [h EXCEPT !.result = result, !.tick_due = FALSE, !.elapsed = 0,
            !.linger_until = NoDeadline, !.key_ignored = FALSE,
            !.sender_ignored = FALSE]

HandshakeErrStatusKept(current) == current

\* MessageManager::handshake, Err branch: the status it leaves
HandshakeErrStatus(current) == "Disconnected"

\* MessageManager::handshake, Ok branch: cipher stored, nonces reset
InstallSession(m, peer_addr, session) ==
  [m EXCEPT !.peer_addr = peer_addr, !.cipher = session.cipher,
            !.tx_nonce = 0, !.rx_nonce = 0]

\* upgrade_to_kcp: the stream mounted on the duplicated socket
UpgradeToKcp(m) == [m EXCEPT !.kcp_stream = TRUE]

NewManager ==
  [peer_addr |-> NoAddr, kcp_stream |-> FALSE, cipher |-> NoCipher,
   tx_nonce |-> 0, rx_nonce |-> 0]

\* is_connected: the stream is there
is_connected(m) == m.kcp_stream

\* the descriptor table of a process that holds only the socket it bound
NoStreamFds == [open |-> {ClientFd}, kcp |-> NoFd]

\* dup: the lowest descriptor that is not open
LowestFree(open) ==
  CHOOSE f \in Fds \ open : \A g \in Fds \ open : f <= g

clone_socket_DropsWrapper(open) ==
  [open |-> (open \ {ClientFd}) \cup {LowestFree(open)},
   fd |-> LowestFree(open)]

\* clone_socket: from_raw_fd wraps the client socket's descriptor, try_clone
\* dups it, and mem::forget keeps the wrapper from closing the descriptor it
\* wraps
clone_socket(open) ==
  [open |-> open \cup {LowestFree(open)}, fd |-> LowestFree(open)]

\* close_kcp: the stream is taken out, shut down and dropped, which closes the
\* descriptor it owns
close_kcp(m, f) ==
  IF m.kcp_stream
    THEN [m |-> [m EXCEPT !.kcp_stream = FALSE],
          fds |-> [open |-> f.open \ {f.kcp}, kcp |-> NoFd]]
    ELSE [m |-> m, fds |-> f]

upgrade_to_kcp_Unchecked(m, f, ok) ==
  IF ~ok
    THEN [m |-> m, fds |-> f, err |-> "Io"]
    ELSE LET c == clone_socket(f.open) IN
         [m |-> UpgradeToKcp(m),
          fds |-> [open |-> c.open \ {f.kcp}, kcp |-> c.fd],
          err |-> "none"]

\* upgrade_to_kcp: without a peer_addr it bails; else the socket is cloned and
\* the stream connected on the clone (ok: both worked; when one fails the
\* clone, if made, is dropped again); a stream mounted before is dropped when
\* the new one is stored
upgrade_to_kcp(m, f, ok) ==
  IF m.peer_addr = NoAddr
    THEN [m |-> m, fds |-> f, err |-> "Handshake not established."]
  ELSE IF ~ok
    THEN [m |-> m, fds |-> f, err |-> "Io"]
  ELSE LET c == clone_socket(f.open) IN
       [m |-> UpgradeToKcp(m),
        fds |-> [open |-> c.open \ {f.kcp}, kcp |-> c.fd],
        err |-> "none"]

\* an event that carries no message field
NoMessage == <<>>

\* the text an error of handshake is rendered to
ErrorMessage(err) == <<err>>

\* format!("Connection failed: {}", e)
ConnectionFailed(err) == <<"Connection failed: ", err>>

\* broadcast_status_change: the AppEvent built for the new status; the
\* Disconnected event holds a copy of the state record and nothing else
broadcast_status_change(st, message) ==
  IF st = "Disconnected"
    THEN [kind |-> "Disconnected", message |-> NoMessage]
    ELSE [kind |-> st, message |-> message]

\* the set_status calls of handshake on its way out with an error: the timeout
\* and the Bye arm publish the message before they bail, the mode check and
\* the ? on the socket calls do not
FailureEvents(err) ==
  IF err \in {"Timeout", "Rejected"}
    THEN {broadcast_status_change("Punching", ErrorMessage(err))}
    ELSE {}

\* what a handler run leaves behind: its name, what it returned, answered or
\* logged, the kinds of AppEvent it published, and the messages carried by
\* the events it published once it had failed
RanSaid(op, res, events, said) ==
  [op |-> op, res |-> res, events |-> events, said |-> said]

Ran(op, res, events) == RanSaid(op, res, events, {})

NoRun == Ran("none", "none", {})

\* send_to on the UDP socket: the datagrams join the receiver's socket queue
Deliver(net0, src, dst, msgs) ==
  IF dst \in Nodes
    THEN [net0 EXCEPT ![dst] = @ \cup {Datagram(src, m) : m \in msgs}]
    ELSE net0

\* From the end of a select! branch of node n's handshake to its next
\* suspension: the frames go out, the loop head runs, and the handshake goes
\* on, fails (MessageManager::handshake resets the status) or succeeds
\* (session installed, then upgrade_to_kcp; when that fails the control loop
\* returns its error and ends).
HsConclude(n, r, net0, upgraded) ==
  LET top == LoopTop(r.h)
      outcome == IF r.err # "none" THEN r.err ELSE top.outcome
      h1 == IF r.err # "none" THEN r.h ELSE top.h
      session == derive_session(h1.my_pub, h1.peer_pub_key, cfg_mode[n],
                                h1.my_pub)
  IN
  /\ net' = Deliver(net0, n, h1.peer_addr, r.reply)
  /\ CASE outcome = "continue" ->
            /\ hs' = [hs EXCEPT ![n] = h1]
            /\ status' = [status EXCEPT ![n] = "Punching"]
            /\ UNCHANGED <<pc, mgr, hist, fds, last>>
       [] outcome = "ok" ->
            LET up == upgrade_to_kcp(
                        InstallSession(mgr[n], h1.peer_addr, session),
                        fds[n], upgraded)
            IN
            /\ hs' = [hs EXCEPT ![n] = Returned(h1, "ok")]
            /\ status' = [status EXCEPT ![n] = "Connected"]
            /\ mgr' = [mgr EXCEPT ![n] = up.m]
            /\ fds' = [fds EXCEPT ![n] = up.fds]
            /\ pc' = [pc EXCEPT ![n] = IF up.err = "none" THEN "idle"
                                                          ELSE "exited"]
            /\ hist' = [hist EXCEPT ![n] = [encs |-> 0, decs |-> 0]]
            /\ last' = [last EXCEPT ![n] =
                 Ran("ConnectPeer", up.err, {"Punching", "Connected"})]
       [] OTHER ->
            /\ hs' = [hs EXCEPT ![n] = Returned(h1, outcome)]
            /\ status' = [status EXCEPT ![n] = HandshakeErrStatus(status[n])]
            /\ pc' = [pc EXCEPT ![n] = "idle"]
            /\ last' = [last EXCEPT ![n] =
                 LET published ==
                       FailureEvents(outcome) \cup
                       {broadcast_status_change(
                          HandshakeErrStatus(status[n]),
                          ConnectionFailed(outcome))}
                 IN RanSaid("ConnectPeer", outcome,
                            {"Punching"} \cup {e.kind : e \in published},
                            {e.message : e \in published} \ {NoMessage})]
            /\ UNCHANGED <<mgr, hist, fds>>

\* the control loop takes ConnectPeer off the channel and, with a peer_ip in
\* the state, enters handshake: keys generated, status Punching
CmdConnectPeer(n) ==
  /\ pc[n] = "idle"
  /\ cmd_q[n] # <<>>
  /\ Head(cmd_q[n]) = "ConnectPeer"
  /\ cmd_q' = [cmd_q EXCEPT ![n] = Tail(@)]
  /\ IF peer_ip[n] # NoAddr
       THEN /\ hs' = [hs EXCEPT ![n] = NewHandshake(peer_ip[n], next_key)]
            /\ next_key' = next_key + 1
            /\ status' = [status EXCEPT ![n] = "Punching"]
            /\ pc' = [pc EXCEPT ![n] = "hs"]
            /\ last' = [last EXCEPT ![n] =
                 Ran("ConnectPeer", "running", {"Punching"})]
       ELSE /\ last' = [last EXCEPT ![n] = Ran("ConnectPeer", "no peer", {})]
            /\ UNCHANGED <<hs, next_key, status, pc>>
  /\ UNCHANGED <<peer_ip, cfg_mode, mgr, net, kcp, crypto_vars, fds,
                 stun_vars>>

\* a datagram arrives while node n's handshake waits in select!
HsRecv(n, d, upgraded) ==
  /\ pc[n] = "hs"
  /\ d \in net[n]
  /\ HsConclude(n, OnDatagram(hs[n], cfg_mode[n], d),
                [net EXCEPT ![n] = @ \ {d}], upgraded)
  /\ UNCHANGED <<peer_ip, cfg_mode, cmd_q, kcp, next_key, enc_log,
                 nonce_reused, stun_vars>>

\* the send interval fires while node n's handshake waits in select!
HsTick(n, upgraded) ==
  /\ pc[n] = "hs"
  /\ hs[n].tick_due
  /\ HsConclude(n, OnTick(hs[n], cfg_mode[n]), net, upgraded)
  /\ UNCHANGED <<peer_ip, cfg_mode, cmd_q, kcp, next_key, enc_log,
                 nonce_reused, stun_vars>>

\* recv_from or send_to returns an error: handshake returns it
HsIoError(n) ==
  /\ pc[n] = "hs"
  /\ HsConclude(n, Step(hs[n], {}, "Io"), net, FALSE)
  /\ UNCHANGED <<peer_ip, cfg_mode, cmd_q, kcp, next_key, enc_log,
                 nonce_reused, stun_vars>>

\* 500 ms pass: every running handshake is half a second older and its send
\* interval is due (a due tick is taken before the next one falls due)
AdvanceTime ==
  /\ \E n \in Nodes : pc[n] = "hs"
  /\ \A n \in Nodes : pc[n] = "hs" => ~hs[n].tick_due
  /\ hs' = [n \in Nodes |->
              IF pc[n] = "hs"
                THEN [hs[n] EXCEPT !.elapsed = @ + 1, !.tick_due = TRUE]
                ELSE hs[n]]
  /\ UNCHANGED <<status, peer_ip, cfg_mode, cmd_q, pc, mgr, net, kcp,
                 next_key, crypto_vars, fds, stun_vars, last>>

\* -------------------------------------------------------------- messaging
\* bincode of StreamMessage: the variant tag, then the text
Text == <<0, "hi">>

StreamBye == <<1>>

StreamKind(bytes) ==
  CASE Len(bytes) = 2 /\ bytes[1] = 0 -> "Text"
    [] Len(bytes) = 1 /\ bytes[1] = 1 -> "Bye"
    [] OTHER -> "Invalid"

send_secure_CipherFirst(m, payload, wrote) ==
  IF m.cipher = NoCipher
    THEN [m |-> m, enc |-> <<>>, out |-> <<>>, err |-> "NotInitialized"]
  ELSE IF ~m.kcp_stream
    THEN [m |-> m, enc |-> <<>>, out |-> <<>>, err |-> "NotConnected"]
  ELSE LET ciphertext == encrypt(m.cipher, m.tx_nonce, payload) IN
       [m |-> [m EXCEPT !.tx_nonce = @ + 1],
        enc |-> <<ciphertext>>,
        out |-> IF wrote THEN <<ciphertext>> ELSE <<>>,
        err |-> IF wrote THEN "none" ELSE "Io"]

send_secure_CountWritten(m, payload, wrote) ==
  IF ~m.kcp_stream
    THEN [m |-> m, enc |-> <<>>, out |-> <<>>, err |-> "NotConnected"]
  ELSE IF m.cipher = NoCipher
    THEN [m |-> m, enc |-> <<>>, out |-> <<>>, err |-> "NotInitialized"]
  ELSE LET ciphertext == encrypt(m.cipher, m.tx_nonce, payload) IN
       [m |-> IF wrote THEN [m EXCEPT !.tx_nonce = @ + 1] ELSE m,
        enc |-> <<ciphertext>>,
        out |-> IF wrote THEN <<ciphertext>> ELSE <<>>,
        err |-> IF wrote THEN "none" ELSE "Io"]

\* send_secure: with a stream and a cipher, encrypt at tx_nonce, count the
\* nonce, then write and flush (which succeed or not); enc is what was
\* encrypted, out what reached the stream
send_secure(m, payload, wrote) ==
  IF ~m.kcp_stream
    THEN [m |-> m, enc |-> <<>>, out |-> <<>>, err |-> "NotConnected"]
  ELSE IF m.cipher = NoCipher
    THEN [m |-> m, enc |-> <<>>, out |-> <<>>, err |-> "NotInitialized"]
  ELSE LET ciphertext == encrypt(m.cipher, m.tx_nonce, payload) IN
       [m |-> [m EXCEPT !.tx_nonce = @ + 1],
        enc |-> <<ciphertext>>,
        out |-> IF wrote THEN <<ciphertext>> ELSE <<>>,
        err |-> IF wrote THEN "none" ELSE "Io"]

\* receive_message on a frame read from the stream: decrypt at rx_nonce and
\* count the nonce, or fail and leave the manager as it is
receive_message(m, frame) ==
  IF m.cipher = NoCipher
    THEN [m |-> m, plaintext |-> <<>>, err |-> "NotInitialized"]
  ELSE IF DecryptOk(m.cipher, m.rx_nonce, frame)
    THEN [m |-> [m EXCEPT !.rx_nonce = @ + 1],
          plaintext |-> frame.pt, err |-> "none"]
  ELSE [m |-> m, plaintext |-> <<>>, err |-> "Decryption failure"]

\* disconnect_internal after the Bye: close_kcp, then peer_addr, cipher and
\* nonces reset
ResetManager(m) ==
  [m EXCEPT !.kcp_stream = FALSE, !.peer_addr = NoAddr, !.cipher = NoCipher,
            !.tx_nonce = 0, !.rx_nonce = 0]

\* the event clear_chat publishes
clear_chat == "ClearChat"

\* send_text: the Text frame through send_secure
send_text(m, wrote) == send_secure(m, Text, wrote)

disconnect_internal_KeepsSession(m, f, send_bye, wrote, sent) ==
  LET c == close_kcp(m, f) IN
  [m |-> c.m, fds |-> c.fds, enc |-> <<>>, out |-> <<>>, udp |-> {},
   bye |-> "not requested",
   events |-> {clear_chat, "Disconnected"}, status |-> "Disconnected",
   err |-> "none"]

disconnect_internal_Strict(m, f, send_bye, wrote, sent) ==
  IF m.peer_addr = NoAddr
    THEN [m |-> m, fds |-> f, enc |-> <<>>, out |-> <<>>, udp |-> {},
          bye |-> "no peer", events |-> {}, status |-> "Disconnected",
          err |-> "NotConnected"]
    ELSE LET r == IF send_bye /\ m.kcp_stream /\ m.cipher # NoCipher
                    THEN send_secure(m, StreamBye, wrote)
                    ELSE [m |-> m, enc |-> <<>>, out |-> <<>>, err |-> "none"]
             c == close_kcp(r.m, f)
         IN
         [m |-> ResetManager(c.m), fds |-> c.fds, enc |-> r.enc,
          out |-> r.out,
          udp |-> IF send_bye /\ r.out = <<>> /\ sent THEN {Bye} ELSE {},
          bye |-> "requested",
          events |-> {clear_chat, "Disconnected"}, status |-> "Disconnected",
          err |-> "none"]

disconnect_internal_ByeAlways(m, f, send_bye, wrote, sent) ==
  LET r == IF m.peer_addr # NoAddr /\ m.kcp_stream /\ m.cipher # NoCipher
             THEN send_secure(m, StreamBye, wrote)
             ELSE [m |-> m, enc |-> <<>>, out |-> <<>>, err |-> "none"]
      c == close_kcp(r.m, f)
  IN
  [m |-> ResetManager(c.m), fds |-> c.fds, enc |-> r.enc, out |-> r.out,
   udp |-> IF m.peer_addr # NoAddr /\ r.out = <<>> /\ sent THEN {Bye} ELSE {},
   bye |-> "not requested",
   events |-> {clear_chat, "Disconnected"}, status |-> "Disconnected",
   err |-> "none"]

\* disconnect_internal: with send_bye and a peer_addr, the Bye goes through
\* send_secure when there are a stream and a cipher, and as a raw UDP frame
\* when that did not send it (wrote, sent: the stream write and the send_to
\* worked); then close_kcp, the manager's fields reset, clear_chat, and the
\* status set to Disconnected; bye is what the log says of the Bye
disconnect_internal(m, f, send_bye, wrote, sent) ==
  LET viaKcp == send_bye /\ m.peer_addr # NoAddr /\ m.kcp_stream
                  /\ m.cipher # NoCipher
      r == IF viaKcp
             THEN send_secure(m, StreamBye, wrote)
             ELSE [m |-> m, enc |-> <<>>, out |-> <<>>, err |-> "none"]
      udpBye == send_bye /\ m.peer_addr # NoAddr /\ r.out = <<>>
      c == close_kcp(r.m, f)
  IN
  [m |-> ResetManager(c.m), fds |-> c.fds, enc |-> r.enc, out |-> r.out,
   udp |-> IF udpBye /\ sent THEN {Bye} ELSE {},
   bye |-> CASE ~send_bye -> "not requested"
             [] m.peer_addr = NoAddr -> "no peer"
             [] r.out # <<>> -> "Sent Encrypted Bye via KCP"
             [] sent -> "Sent HandshakeMsg::Bye via UDP"
             [] OTHER -> "Failed to send Bye via UDP",
   events |-> {clear_chat, "Disconnected"}, status |-> "Disconnected",
   err |-> "none"]

\* the stream's writes reach the peer's end of the stream
StreamWrite(kcp0, dst, frames) ==
  IF dst \in Nodes THEN [kcp0 EXCEPT ![dst] = @ \o frames] ELSE kcp0

\* the encryptions node n made are recorded, with whether one repeated a
\* (secret, nonce)
LogEncryptions(n, frames) ==
  /\ enc_log' = enc_log \cup {<<frames[i].secret, frames[i].nonce>> :
                               i \in 1..Len(frames)}
  /\ nonce_reused' = (nonce_reused \/
       \E i \in 1..Len(frames) :
          <<frames[i].secret, frames[i].nonce>> \in enc_log)
  /\ hist' = [hist EXCEPT ![n].encs = @ + Len(frames)]

\* the control loop takes SendMessage off the channel
CmdSendMessage(n, wrote) ==
  /\ pc[n] = "idle"
  /\ cmd_q[n] # <<>>
  /\ Head(cmd_q[n]) = "SendMessage"
  /\ cmd_q' = [cmd_q EXCEPT ![n] = Tail(@)]
  /\ IF is_connected(mgr[n])
       THEN LET r == send_text(mgr[n], wrote) IN
            /\ mgr' = [mgr EXCEPT ![n] = r.m]
            /\ kcp' = StreamWrite(kcp, mgr[n].peer_addr, r.out)
            /\ LogEncryptions(n, r.enc)
            /\ last' = [last EXCEPT ![n] =
                 Ran("SendMessage", r.err,
                     IF r.err = "none" THEN {"Message"} ELSE {})]
       ELSE /\ last' = [last EXCEPT ![n] =
                 Ran("SendMessage", "not connected", {})]
            /\ UNCHANGED <<mgr, kcp, crypto_vars>>
  /\ UNCHANGED <<status, peer_ip, cfg_mode, pc, hs, net, next_key, fds,
                 stun_vars>>

\* the control loop takes Disconnect off the channel: disconnect_internal(true);
\* the stream write and the UDP send_to each succeed or fail
CmdDisconnect(n, wrote, sent) ==
  /\ pc[n] = "idle"
  /\ cmd_q[n] # <<>>
  /\ Head(cmd_q[n]) = "Disconnect"
  /\ cmd_q' = [cmd_q EXCEPT ![n] = Tail(@)]
  /\ LET r == disconnect_internal(mgr[n], fds[n], TRUE, wrote, sent) IN
     /\ mgr' = [mgr EXCEPT ![n] = r.m]
     /\ fds' = [fds EXCEPT ![n] = r.fds]
     /\ kcp' = [StreamWrite(kcp, mgr[n].peer_addr, r.out) EXCEPT ![n] = <<>>]
     /\ net' = Deliver(net, n, mgr[n].peer_addr, r.udp)
     /\ LogEncryptions(n, r.enc)
     /\ status' = [status EXCEPT ![n] = r.status]
     /\ last' = [last EXCEPT ![n] = Ran("Disconnect", r.bye, r.events)]
  /\ UNCHANGED <<peer_ip, cfg_mode, pc, hs, next_key, stun_vars>>

\* the control loop reads a frame from the stream (only while is_connected)
ReceiveMessage(n) ==
  /\ pc[n] = "idle"
  /\ mgr[n].kcp_stream
  /\ kcp[n] # <<>>
  /\ LET r == receive_message(mgr[n], Head(kcp[n])) IN
     /\ hist' = [hist EXCEPT ![n].decs = @ + IF r.err = "none" THEN 1 ELSE 0]
     /\ CASE r.err = "none" /\ StreamKind(r.plaintext) = "Bye" ->
               \* disconnect_on_bye_received (the stream and the socket
               \* would take a write)
               LET d == disconnect_internal(r.m, fds[n], FALSE, TRUE, TRUE)
               IN
               /\ mgr' = [mgr EXCEPT ![n] = d.m]
               /\ fds' = [fds EXCEPT ![n] = d.fds]
               /\ kcp' = [StreamWrite(kcp, r.m.peer_addr, d.out)
                            EXCEPT ![n] = <<>>]
               /\ net' = Deliver(net, n, r.m.peer_addr, d.udp)
               /\ status' = [status EXCEPT ![n] = d.status]
               /\ last' = [last EXCEPT ![n] =
                    Ran("receive_message", "Bye", d.events)]
          [] r.err = "none" ->
               \* a Text is shown, anything else logged
               /\ mgr' = [mgr EXCEPT ![n] = r.m]
               /\ kcp' = [kcp EXCEPT ![n] = Tail(@)]
               /\ last' = [last EXCEPT ![n] =
                    Ran("receive_message", StreamKind(r.plaintext),
                        IF StreamKind(r.plaintext) = "Text"
                          THEN {"Message"} ELSE {})]
               /\ UNCHANGED <<status, fds, net>>
          [] OTHER ->
               \* Err(e): the error is logged and the loop goes on
               /\ mgr' = [mgr EXCEPT ![n] = r.m]
               /\ kcp' = [kcp EXCEPT ![n] = Tail(@)]
               /\ last' = [last EXCEPT ![n] =
                    Ran("receive_message", r.err, {})]
               /\ UNCHANGED <<status, fds, net>>
  /\ UNCHANGED <<peer_ip, cfg_mode, cmd_q, pc, hs, next_key, enc_log,
                 nonce_reused, stun_vars>>

\* ------------------------------------------------------------- keep-alive
\* a STUN message on the wire: the tag, the transaction id, the address
\* attribute (NoAddr: the attribute is missing)
StunResponse(tx, addr) == <<3, tx, addr>>

\* resolve_public_ip from the datagram recv_from returned, whoever sent it:
\* it has to parse as a STUN message, carry the transaction id of the request
\* and hold XOR-MAPPED-ADDRESS
resolve_public_ip_AnyTransaction(tx, bytes) ==
  IF ~(Len(bytes) = 3 /\ bytes[1] = 3)
    THEN [addr |-> NoAddr, err |-> "StunProtocol"]
  ELSE IF bytes[3] = NoAddr
    THEN [addr |-> NoAddr, err |-> "StunProtocol"]
  ELSE [addr |-> bytes[3], err |-> "none"]

resolve_public_ip(tx, bytes) ==
  IF ~(Len(bytes) = 3 /\ bytes[1] = 3)
    THEN [addr |-> NoAddr, err |-> "StunProtocol"]
  ELSE IF bytes[2] # tx
    THEN [addr |-> NoAddr, err |-> "SecurityMismatch"]
  ELSE IF bytes[3] = NoAddr
    THEN [addr |-> NoAddr, err |-> "StunProtocol"]
  ELSE [addr |-> bytes[3], err |-> "none"]

KeepAliveDue_Always(current) == TRUE

\* the keep-alive arm's test of the status it has read
KeepAliveDue(current) == current = "Disconnected"

\* keep_alive_interval.tick() fires while the control loop waits in select!:
\* when the status is Disconnected, resolve_public_ip looks the server up and
\* sends a binding request (sent: both worked), then waits for a datagram
KeepAliveTick(n, sent) ==
  /\ pc[n] = "idle"
  /\ stun_tx[n] < MaxStun
  /\ IF KeepAliveDue(status[n])
       THEN IF sent
              THEN /\ stun_tx' = [stun_tx EXCEPT ![n] = @ + 1]
                   /\ pc' = [pc EXCEPT ![n] = "stun"]
                   /\ last' = [last EXCEPT ![n] =
                        Ran("keep_alive", "waiting", {})]
              ELSE /\ last' = [last EXCEPT ![n] = Ran("keep_alive", "Io", {})]
                   /\ UNCHANGED <<stun_tx, pc>>
       ELSE /\ last' = [last EXCEPT ![n] = Ran("keep_alive", "skipped", {})]
            /\ UNCHANGED <<stun_tx, pc>>
  /\ UNCHANGED <<status, peer_ip, cfg_mode, cmd_q, hs, mgr, net, kcp, next_key,
                 crypto_vars, fds, public_ip, nat_type>>

\* the keep-alive's recv_from returns a datagram: an address that differs
\* from public_ip is stored by set_public_ip, an error is logged
StunRecv(n, d) ==
  /\ pc[n] = "stun"
  /\ d \in net[n]
  /\ net' = [net EXCEPT ![n] = @ \ {d}]
  /\ pc' = [pc EXCEPT ![n] = "idle"]
  /\ LET r == resolve_public_ip(stun_tx[n], d.bytes)
         changed == r.err = "none" /\ public_ip[n] # r.addr
     IN
     /\ public_ip' = IF changed THEN [public_ip EXCEPT ![n] = r.addr]
                                 ELSE public_ip
     /\ last' = [last EXCEPT ![n] =
          Ran("keep_alive", r.err, IF changed THEN {status[n]} ELSE {})]
  /\ UNCHANGED <<status, peer_ip, cfg_mode, cmd_q, hs, mgr, kcp, next_key,
                 crypto_vars, fds, stun_tx, nat_type>>

\* STUN_TIMEOUT passes without a datagram
StunTimeout(n) ==
  /\ pc[n] = "stun"
  /\ pc' = [pc EXCEPT ![n] = "idle"]
  /\ last' = [last EXCEPT ![n] = Ran("keep_alive", "StunTimeout", {})]
  /\ UNCHANGED <<status, peer_ip, cfg_mode, cmd_q, hs, mgr, net, kcp, next_key,
                 crypto_vars, fds, stun_vars>>

\* ---------------------------------------------------------------- startup
\* what resolve_public_ip returns when it fails before or instead of reading
\* a datagram
StunFailed(err) == [addr |-> NoAddr, err |-> err]

get_nat_type_ErrSymmetric(prev_addr, r) ==
  IF r.err = "none" /\ prev_addr = r.addr THEN "Cone" ELSE "Symmetric"

\* get_nat_type on the result r of its resolve_public_ip: any error is
\* Unknown, the address seen before is Cone, another one Symmetric
get_nat_type(prev_addr, r) ==
  IF r.err # "none" THEN "Unknown"
  ELSE IF prev_addr = r.addr THEN "Cone"
  ELSE "Symmetric"

\* start_controller, step 3: resolve_public_ip looks the STUN server up and
\* sends its binding request (sent: both worked), then waits for a datagram;
\* an error is logged and the controller goes on to its loop
StartResolve(n, sent) ==
  /\ pc[n] = "boot"
  /\ IF sent
       THEN /\ stun_tx' = [stun_tx EXCEPT ![n] = @ + 1]
            /\ pc' = [pc EXCEPT ![n] = "resolve"]
            /\ last' = [last EXCEPT ![n] =
                 Ran("resolve_public_ip", "waiting", {})]
       ELSE /\ pc' = [pc EXCEPT ![n] = "idle"]
            /\ last' = [last EXCEPT ![n] = Ran("resolve_public_ip", "Io", {})]
            /\ UNCHANGED stun_tx
  /\ UNCHANGED <<status, peer_ip, cfg_mode, cmd_q, hs, mgr, net, kcp, next_key,
                 crypto_vars, fds, public_ip, nat_type>>

\* the rest of step 3 once resolve_public_ip has returned r: on an address,
\* set_public_ip, and get_nat_type sends the request of its own
\* resolve_public_ip to the verifier (sent) and waits, or fails at once and
\* set_nat_type stores Unknown
Resolved(n, r, sent) ==
  IF r.err # "none"
    THEN /\ pc' = [pc EXCEPT ![n] = "idle"]
         /\ last' = [last EXCEPT ![n] = Ran("resolve_public_ip", r.err, {})]
         /\ UNCHANGED <<public_ip, stun_tx, nat_type>>
    ELSE /\ public_ip' = [public_ip EXCEPT ![n] = r.addr]
         /\ IF sent
              THEN /\ stun_tx' = [stun_tx EXCEPT ![n] = @ + 1]
                   /\ pc' = [pc EXCEPT ![n] = "verify"]
                   /\ last' = [last EXCEPT ![n] =
                        Ran("get_nat_type", "waiting", {status[n]})]
                   /\ UNCHANGED nat_type
              ELSE /\ nat_type' = [nat_type EXCEPT ![n] =
                        get_nat_type(r.addr, StunFailed("Io"))]
                   /\ pc' = [pc EXCEPT ![n] = "idle"]
                   /\ last' = [last EXCEPT ![n] =
                        Ran("get_nat_type", "Io", {status[n]})]
                   /\ UNCHANGED stun_tx

\* the recv_from of the first resolve_public_ip returns a datagram
StartupRecv(n, d, sent) ==
  /\ pc[n] = "resolve"
  /\ d \in net[n]
  /\ net' = [net EXCEPT ![n] = @ \ {d}]
  /\ Resolved(n, resolve_public_ip(stun_tx[n], d.bytes), sent)
  /\ UNCHANGED <<status, peer_ip, cfg_mode, cmd_q, hs, mgr, kcp, next_key,
                 crypto_vars, fds>>

\* STUN_TIMEOUT passes in the first resolve_public_ip
StartupTimeout(n) ==
  /\ pc[n] = "resolve"
  /\ Resolved(n, StunFailed("StunTimeout"), FALSE)
  /\ UNCHANGED <<status, peer_ip, cfg_mode, cmd_q, hs, mgr, net, kcp, next_key,
                 crypto_vars, fds>>

\* get_nat_type returns the NAT type r gives and set_nat_type stores it
Verified(n, r) ==
  /\ nat_type' = [nat_type EXCEPT ![n] = get_nat_type(public_ip[n], r)]
  /\ pc' = [pc EXCEPT ![n] = "idle"]
  /\ last' = [last EXCEPT ![n] = Ran("get_nat_type", r.err, {status[n]})]

\* the recv_from of get_nat_type's resolve_public_ip returns a datagram
VerifyRecv(n, d) ==
  /\ pc[n] = "verify"
  /\ d \in net[n]
  /\ net' = [net EXCEPT ![n] = @ \ {d}]
  /\ Verified(n, resolve_public_ip(stun_tx[n], d.bytes))
  /\ UNCHANGED <<status, peer_ip, cfg_mode, cmd_q, hs, mgr, kcp, next_key,
                 crypto_vars, fds, public_ip, stun_tx>>

\* STUN_TIMEOUT passes in get_nat_type's resolve_public_ip
VerifyTimeout(n) ==
  /\ pc[n] = "verify"
  /\ Verified(n, StunFailed("StunTimeout"))
  /\ UNCHANGED <<status, peer_ip, cfg_mode, cmd_q, hs, mgr, net, kcp, next_key,
                 crypto_vars, fds, public_ip, stun_tx>>

\* ----------------------------------------------------------- direct calls
\* the manager's public methods called on a manager as it stands, as the
\* module's tests call them
CallUpgrade(n, ok) ==
  /\ LET r == upgrade_to_kcp(mgr[n], fds[n], ok) IN
     /\ mgr' = [mgr EXCEPT ![n] = r.m]
     /\ fds' = [fds EXCEPT ![n] = r.fds]
     /\ last' = [last EXCEPT ![n] = Ran("upgrade_to_kcp", r.err, {})]
  /\ UNCHANGED <<status, peer_ip, cfg_mode, cmd_q, pc, hs, net, kcp, next_key,
                 crypto_vars, stun_vars>>

CallSendText(n, wrote) ==
  /\ mgr[n].tx_nonce < MaxNonce
  /\ LET r == send_text(mgr[n], wrote) IN
     /\ mgr' = [mgr EXCEPT ![n] = r.m]
     /\ kcp' = StreamWrite(kcp, mgr[n].peer_addr, r.out)
     /\ LogEncryptions(n, r.enc)
     /\ last' = [last EXCEPT ![n] = Ran("send_text", r.err, {})]
  /\ UNCHANGED <<status, peer_ip, cfg_mode, cmd_q, pc, hs, net, next_key, fds,
                 stun_vars>>

CallDisconnect(n, send_bye, wrote, sent) ==
  /\ LET r == disconnect_internal(mgr[n], fds[n], send_bye, wrote, sent) IN
     /\ mgr' = [mgr EXCEPT ![n] = r.m]
     /\ fds' = [fds EXCEPT ![n] = r.fds]
     /\ kcp' = [StreamWrite(kcp, mgr[n].peer_addr, r.out) EXCEPT ![n] = <<>>]
     /\ net' = Deliver(net, n, mgr[n].peer_addr, r.udp)
     /\ LogEncryptions(n, r.enc)
     /\ status' = [status EXCEPT ![n] = r.status]
     /\ last' = [last EXCEPT ![n] =
          Ran(IF send_bye THEN "disconnect" ELSE "disconnect_on_bye_received",
              r.bye, r.events)]
  /\ UNCHANGED <<peer_ip, cfg_mode, cmd_q, pc, hs, next_key, stun_vars>>

CallCloseKcp(n) ==
  /\ LET r == close_kcp(mgr[n], fds[n]) IN
     /\ mgr' = [mgr EXCEPT ![n] = r.m]
     /\ fds' = [fds EXCEPT ![n] = r.fds]
     /\ kcp' = [kcp EXCEPT ![n] = <<>>]
     /\ last' = [last EXCEPT ![n] = Ran("close_kcp", "none", {})]
  /\ UNCHANGED <<status, peer_ip, cfg_mode, cmd_q, pc, hs, net, next_key,
                 crypto_vars, stun_vars>>

\* the payloads the crypto calls are given
Plaintexts == {Text, StreamBye, <<>>}

\* derive_session called with the keys the node holds, as the tests of
\* crypto.rs call it; the cipher is kept
CallDeriveSession(n) ==
  /\ mgr[n].cipher = NoCipher
  /\ LET session == derive_session(hs[n].my_pub, hs[n].peer_pub_key,
                                   cfg_mode[n], hs[n].my_pub) IN
     /\ mgr' = [mgr EXCEPT ![n].cipher = session.cipher]
     /\ last' = [last EXCEPT ![n] = Ran("derive_session", "none", {})]
  /\ UNCHANGED <<status, peer_ip, cfg_mode, cmd_q, pc, hs, net, kcp, next_key,
                 crypto_vars, fds, stun_vars>>

\* session.cipher.encrypt(nonce, plaintext): the ciphertext is kept in the
\* node's buffer
CallEncrypt(n, nonce_val, plaintext) ==
  /\ mgr[n].cipher # NoCipher
  /\ kcp[n] = <<>>
  /\ hist[n].encs < MaxNonce
  /\ LET ciphertext == encrypt(mgr[n].cipher, nonce_val, plaintext) IN
     /\ kcp' = [kcp EXCEPT ![n] = <<ciphertext>>]
     /\ LogEncryptions(n, <<ciphertext>>)
     /\ last' = [last EXCEPT ![n] = Ran("encrypt", "none", {})]
  /\ UNCHANGED <<status, peer_ip, cfg_mode, cmd_q, pc, hs, mgr, net, next_key,
                 fds, stun_vars>>

\* session.cipher.decrypt(nonce, &encrypted) on the ciphertext in the buffer
CallDecrypt(n, nonce_val) ==
  /\ mgr[n].cipher # NoCipher
  /\ kcp[n] # <<>>
  /\ LET r == decrypt(mgr[n].cipher, nonce_val, Head(kcp[n])) IN
     /\ kcp' = [kcp EXCEPT ![n] = Tail(@)]
     /\ hist' = [hist EXCEPT ![n].decs = @ + IF r.err = "none" THEN 1 ELSE 0]
     /\ last' = [last EXCEPT ![n] =
          Ran("decrypt", r.err,
              IF r.err = "none" THEN {StreamKind(r.plaintext)} ELSE {})]
  /\ UNCHANGED <<status, peer_ip, cfg_mode, cmd_q, pc, hs, mgr, net, next_key,
                 enc_log, nonce_reused, fds, stun_vars>>

\* ------------------------------------------------------------ environment
Count(q, c) == Cardinality({i \in 1..Len(q) : q[i] = c})

post_peer_ip_Unchecked(current, peer, q, addr) ==
  [code |-> "200", peer_ip |-> addr, cmd_q |-> Append(q, "ConnectPeer")]

\* post_peer_ip: 400 unless the status is Disconnected; else peer_ip is
\* written and ConnectPeer sent to the control loop
post_peer_ip(current, peer, q, addr) ==
  IF current # "Disconnected"
    THEN [code |-> "400", peer_ip |-> peer, cmd_q |-> q]
    ELSE [code |-> "200", peer_ip |-> addr,
          cmd_q |-> Append(q, "ConnectPeer")]

\* POST /api/connect (post_peer_ip): accepted while the status is
\* Disconnected; writes peer_ip and sends ConnectPeer. maxKeys bounds the
\* handshake attempts of the run.
WebConnect(n, addr, maxKeys) ==
  /\ status[n] = "Disconnected"
  /\ pc[n] # "exited"
  /\ Len(cmd_q[n]) < MaxQueue
  /\ next_key + Count(cmd_q[1], "ConnectPeer")
              + Count(cmd_q[2], "ConnectPeer") <= maxKeys
  /\ LET r == post_peer_ip(status[n], peer_ip[n], cmd_q[n], addr) IN
     /\ peer_ip' = [peer_ip EXCEPT ![n] = r.peer_ip]
     /\ cmd_q' = [cmd_q EXCEPT ![n] = r.cmd_q]
     /\ last' = [last EXCEPT ![n] = Ran("post_peer_ip", r.code, {})]
  /\ UNCHANGED <<status, cfg_mode, pc, hs, mgr, net, kcp, next_key,
                 crypto_vars, fds, stun_vars>>

\* POST /api/connect while the status is Punching or Connected
WebConnectBusy(n, addr) ==
  /\ status[n] # "Disconnected"
  /\ pc[n] # "exited"
  /\ Len(cmd_q[n]) < MaxQueue
  /\ LET r == post_peer_ip(status[n], peer_ip[n], cmd_q[n], addr) IN
     /\ peer_ip' = [peer_ip EXCEPT ![n] = r.peer_ip]
     /\ cmd_q' = [cmd_q EXCEPT ![n] = r.cmd_q]
     /\ last' = [last EXCEPT ![n] = Ran("post_peer_ip", r.code, {})]
  /\ UNCHANGED <<status, cfg_mode, pc, hs, mgr, net, kcp, next_key,
                 crypto_vars, fds, stun_vars>>

\* the STUN server answers a binding request of node n, whenever it likes and
\* with the address it sees
StunServerSend(n, tx, addr) ==
  /\ tx \in 1..stun_tx[n]
  /\ \A d \in net[n] : d.src # StunServer
  /\ net' = [net EXCEPT ![n] =
               @ \cup {[src |-> StunServer, bytes |-> StunResponse(tx, addr)]}]
  /\ UNCHANGED <<status, peer_ip, cfg_mode, cmd_q, pc, hs, mgr, kcp, next_key,
                 crypto_vars, fds, stun_vars, last>>

\* a host sends the node a datagram that is no STUN message while the node
\* resolves its address
JunkSend(n) ==
  /\ pc[n] \in {"resolve", "verify"}
  /\ \A d \in net[n] : d.src # ThirdParty
  /\ net' = [net EXCEPT ![n] = @ \cup {[src |-> ThirdParty, bytes |-> <<9>>]}]
  /\ UNCHANGED <<status, peer_ip, cfg_mode, cmd_q, pc, hs, mgr, kcp, next_key,
                 crypto_vars, fds, stun_vars, last>>

\* a holder of cmd_tx (a request handler, the signal handler) sends
\* SendMessage or Disconnect to the control loop; MaxNonce bounds the messages
\* of a session, and one Disconnect waits at a time
SendCommand(n, cmd) ==
  /\ pc[n] # "exited"
  /\ Len(cmd_q[n]) < MaxQueue
  /\ IF cmd = "SendMessage"
       THEN mgr[n].tx_nonce + Count(cmd_q[n], "SendMessage") < MaxNonce
       ELSE Count(cmd_q[n], "Disconnect") = 0
  /\ cmd_q' = [cmd_q EXCEPT ![n] = Append(@, cmd)]
  /\ UNCHANGED <<status, peer_ip, cfg_mode, pc, hs, mgr, net, kcp, next_key,
                 crypto_vars, fds, stun_vars, last>>

\* UDP loses a datagram
Lose(n, d) ==
  /\ d \in net[n]
  /\ net' = [net EXCEPT ![n] = @ \ {d}]
  /\ UNCHANGED <<status, peer_ip, cfg_mode, cmd_q, pc, hs, mgr, kcp, next_key,
                 crypto_vars, fds, stun_vars, last>>

\* what a third party can put in a datagram: any handshake frame with keys of
\* its own, or bytes that are no frame
ThirdPartyBytes ==
  {Serialize(Syn(k, m)) : k \in ThirdPartyKeys, m \in Modes}
    \cup {Serialize(SynAck(k)) : k \in ThirdPartyKeys}
    \cup {Serialize(Bye), <<9>>}

\* a host that is neither node sends a datagram to node n's socket
ThirdPartySend(n, bytes) ==
  /\ pc[n] = "hs"
  /\ Cardinality({d \in net[1] \cup net[2] : d.src = ThirdParty}) < MaxForged
  /\ net' = [net EXCEPT ![n] = @ \cup {[src |-> ThirdParty, bytes |-> bytes]}]
  /\ UNCHANGED <<status, peer_ip, cfg_mode, cmd_q, pc, hs, mgr, kcp, next_key,
                 crypto_vars, fds, stun_vars, last>>

\* the socket at peer_addr sends a datagram to node n's socket while n's
\* handshake runs
PeerSend(n, bytes) ==
  /\ pc[n] = "hs"
  /\ Cardinality({d \in net[n] : d.src = hs[n].peer_addr}) < MaxForged
  /\ net' = [net EXCEPT ![n] =
                @ \cup {[src |-> hs[n].peer_addr, bytes |-> bytes]}]
  /\ UNCHANGED <<status, peer_ip, cfg_mode, cmd_q, pc, hs, mgr, kcp, next_key,
                 crypto_vars, fds, stun_vars, last>>

\* a host that is not the peer sends a datagram to node n's socket while n's
\* handshake runs
AttackerSend(n, bytes) ==
  /\ pc[n] = "hs"
  /\ hs[n].peer_addr # Attacker
  /\ Cardinality({d \in net[n] : d.src = Attacker}) < MaxForged
  /\ net' = [net EXCEPT ![n] = @ \cup {[src |-> Attacker, bytes |-> bytes]}]
  /\ UNCHANGED <<status, peer_ip, cfg_mode, cmd_q, pc, hs, mgr, kcp, next_key,
                 crypto_vars, fds, stun_vars, last>>

\* ------------------------------------------------------- specifications
\* The two nodes are interchangeable, so node 1's mode is fixed.
ModeChoices == {f \in [Nodes -> Modes] : f[1] = "ChaCha20Poly1305"}

Init ==
  /\ status = [n \in Nodes |-> "Disconnected"]
  /\ peer_ip = [n \in Nodes |-> NoAddr]
  /\ cfg_mode \in ModeChoices
  /\ cmd_q = [n \in Nodes |-> <<>>]
  /\ pc = [n \in Nodes |-> "idle"]
  /\ hs = [n \in Nodes |-> NoHandshake]
  /\ mgr = [n \in Nodes |-> NewManager]
  /\ net = [n \in Nodes |-> {}]
  /\ kcp = [n \in Nodes |-> <<>>]
  /\ next_key = 1
  /\ enc_log = {}
  /\ nonce_reused = FALSE
  /\ hist = [n \in Nodes |-> [encs |-> 0, decs |-> 0]]
  /\ fds = [n \in Nodes |-> NoStreamFds]
  /\ public_ip = [n \in Nodes |-> NoAddr]
  /\ stun_tx = [n \in Nodes |-> 0]
  /\ nat_type = [n \in Nodes |-> "Unknown"]
  /\ last = [n \in Nodes |-> NoRun]

\* the handshake between the two nodes over a lossy network on which a third
\* party sends too
Next ==
  \/ \E n \in Nodes : \E addr \in Nodes \ {n} : WebConnect(n, addr, MaxKeys)
  \/ \E n \in Nodes : CmdConnectPeer(n)
  \/ \E n \in Nodes : \E d \in net[n], up \in BOOLEAN : HsRecv(n, d, up)
  \/ \E n \in Nodes, up \in BOOLEAN : HsTick(n, up)
  \/ \E n \in Nodes : HsIoError(n)
  \/ AdvanceTime
  \/ \E n \in Nodes : \E d \in net[n] : Lose(n, d)
  \/ \E n \in Nodes, bytes \in ThirdPartyBytes : ThirdPartySend(n, bytes)

Spec == Init /\ [][Next]_vars

\* the node that is told to connect to the third party
Dialer == CHOOSE n \in Nodes : \A m \in Nodes : n <= m

\* the handshake of one node with a peer that is not a GhostLink node and
\* sends what it likes
NextThird ==
  \/ WebConnect(Dialer, ThirdParty, MaxKeys)
  \/ CmdConnectPeer(Dialer)
  \/ \E d \in net[Dialer], up \in BOOLEAN : HsRecv(Dialer, d, up)
  \/ \E up \in BOOLEAN : HsTick(Dialer, up)
  \/ HsIoError(Dialer)
  \/ AdvanceTime
  \/ \E d \in net[Dialer] : Lose(Dialer, d)
  \/ \E bytes \in ThirdPartyBytes : ThirdPartySend(Dialer, bytes)

SpecThird == Init /\ [][NextThird]_vars

\* the socket the handshake was given as its peer
PeerSocket == CHOOSE n \in Nodes : n # Dialer

\* the handshake of one node with a socket that sends what it likes and
\* reads what it is sent when it likes; nothing is lost on the way to the
\* node: every datagram that leaves the node's socket is read by the handshake
InitPeer ==
  /\ status = [n \in Nodes |-> "Disconnected"]
  /\ peer_ip = [n \in Nodes |-> IF n = Dialer THEN PeerSocket ELSE NoAddr]
  /\ cfg_mode = [n \in Nodes |-> "ChaCha20Poly1305"]
  /\ cmd_q = [n \in Nodes |-> IF n = Dialer THEN <<"ConnectPeer">> ELSE <<>>]
  /\ pc = [n \in Nodes |-> "idle"]
  /\ hs = [n \in Nodes |-> NoHandshake]
  /\ mgr = [n \in Nodes |-> NewManager]
  /\ net = [n \in Nodes |-> {}]
  /\ kcp = [n \in Nodes |-> <<>>]
  /\ next_key = 1
  /\ enc_log = {}
  /\ nonce_reused = FALSE
  /\ hist = [n \in Nodes |-> [encs |-> 0, decs |-> 0]]
  /\ fds = [n \in Nodes |-> NoStreamFds]
  /\ public_ip = [n \in Nodes |-> NoAddr]
  /\ stun_tx = [n \in Nodes |-> 0]
  /\ nat_type = [n \in Nodes |-> "Unknown"]
  /\ last = [n \in Nodes |-> NoRun]

NextPeer ==
  \/ CmdConnectPeer(Dialer)
  \/ \E d \in net[Dialer], up \in BOOLEAN : HsRecv(Dialer, d, up)
  \/ \E up \in BOOLEAN : HsTick(Dialer, up)
  \/ AdvanceTime
  \/ \E bytes \in ThirdPartyBytes : PeerSend(Dialer, bytes)
  \/ \E d \in net[PeerSocket] : Lose(PeerSocket, d)

SpecPeer == InitPeer /\ [][NextPeer]_vars

\* the same handshake while a host that is not the peer sends too, without
\* end; time passes, and select! takes the send interval's tick when it is due
NextEndless ==
  \/ CmdConnectPeer(Dialer)
  \/ \E d \in net[Dialer], up \in BOOLEAN : HsRecv(Dialer, d, up)
  \/ \E up \in BOOLEAN : HsTick(Dialer, up)
  \/ AdvanceTime
  \/ \E bytes \in ThirdPartyBytes : PeerSend(Dialer, bytes)
  \/ AttackerSend(Dialer, Serialize(Bye))

SpecEndless ==
  /\ InitPeer
  /\ [][NextEndless]_vars
  /\ WF_vars(CmdConnectPeer(Dialer))
  /\ WF_vars(\E up \in BOOLEAN : HsTick(Dialer, up))
  /\ WF_vars(AdvanceTime)

\* a failed attempt followed by a new one: the two nodes connect to each
\* other as often as MaxRetryKeys allows, and no datagram is lost
NextRetry ==
  \/ \E n \in Nodes : \E addr \in Nodes \ {n} :
        WebConnect(n, addr, MaxRetryKeys)
  \/ \E n \in Nodes : CmdConnectPeer(n)
  \/ \E n \in Nodes : \E d \in net[n], up \in BOOLEAN : HsRecv(n, d, up)
  \/ \E n \in Nodes, up \in BOOLEAN : HsTick(n, up)
  \/ \E n \in Nodes : HsIoError(n)
  \/ AdvanceTime

SpecRetry == Init /\ [][NextRetry]_vars

\* both nodes have been told to connect to each other
InitSim ==
  /\ status = [n \in Nodes |-> "Disconnected"]
  /\ peer_ip = [n \in Nodes |-> CHOOSE a \in Nodes : a # n]
  /\ cfg_mode \in ModeChoices
  /\ cmd_q = [n \in Nodes |-> <<"ConnectPeer">>]
  /\ pc = [n \in Nodes |-> "idle"]
  /\ hs = [n \in Nodes |-> NoHandshake]
  /\ mgr = [n \in Nodes |-> NewManager]
  /\ net = [n \in Nodes |-> {}]
  /\ kcp = [n \in Nodes |-> <<>>]
  /\ next_key = 1
  /\ enc_log = {}
  /\ nonce_reused = FALSE
  /\ hist = [n \in Nodes |-> [encs |-> 0, decs |-> 0]]
  /\ fds = [n \in Nodes |-> NoStreamFds]
  /\ public_ip = [n \in Nodes |-> NoAddr]
  /\ stun_tx = [n \in Nodes |-> 0]
  /\ nat_type = [n \in Nodes |-> "Unknown"]
  /\ last = [n \in Nodes |-> NoRun]

\* 500 ms pass on a network that delivers at once: both handshakes have
\* started, and a running handshake has taken its tick and read its socket
\* empty before the next tick falls due
AdvanceTimeSync ==
  /\ \A n \in Nodes : Count(cmd_q[n], "ConnectPeer") = 0
  /\ \A n \in Nodes : pc[n] = "hs" => net[n] = {}
  /\ AdvanceTime

\* two nodes starting their handshakes at the same time, nothing lost
NextSim ==
  \/ \E n \in Nodes : CmdConnectPeer(n)
  \/ \E n \in Nodes : \E d \in net[n], up \in BOOLEAN : HsRecv(n, d, up)
  \/ \E n \in Nodes, up \in BOOLEAN : HsTick(n, up)
  \/ AdvanceTimeSync

\* the control loop and the timers keep running
SpecSim == InitSim /\ [][NextSim]_vars /\ WF_vars(NextSim)

\* the same two handshakes, while a host that is the peer of neither sends
\* what it likes to the socket of one of them
NextAttacker ==
  \/ NextSim
  \/ \E bytes \in ThirdPartyBytes : AttackerSend(Dialer, bytes)

SpecAttacker == InitSim /\ [][NextAttacker]_vars

\* the same two handshakes on a network that may lose any datagram
NextLossy ==
  \/ NextSim
  \/ \E n \in Nodes : \E d \in net[n] : Lose(n, d)

SpecLossy == InitSim /\ [][NextLossy]_vars

\* the session that follows the handshake: messages and disconnects
NextSession ==
  \/ NextSim
  \/ \E n \in Nodes, cmd \in {"SendMessage", "Disconnect"} : SendCommand(n, cmd)
  \/ \E n \in Nodes, wrote \in BOOLEAN : CmdSendMessage(n, wrote)
  \/ \E n \in Nodes, wrote \in BOOLEAN, sent \in BOOLEAN :
        CmdDisconnect(n, wrote, sent)
  \/ \E n \in Nodes : ReceiveMessage(n)

SpecSession == InitSim /\ [][NextSession]_vars

\* the other node
Peer(n) == CHOOSE a \in Nodes : a # n

\* the handshake of node n, returned with success on the peer's key
DoneHandshake(n) ==
  Returned([NewHandshake(Peer(n), n) EXCEPT !.peer_pub_key = Peer(n),
                                              !.received_syn_ack = TRUE,
                                              !.sent_syn_ack = TRUE], "ok")

\* the manager and the descriptors of node n after that handshake and
\* upgrade_to_kcp
Mounted(n) ==
  upgrade_to_kcp(
    InstallSession(NewManager, Peer(n),
                   derive_session(n, Peer(n), "ChaCha20Poly1305", n)),
    NoStreamFds, TRUE)

\* the state two nodes of the same mode are in when their handshakes with
\* each other have succeeded and both streams are mounted
InitEstablished ==
  /\ status = [n \in Nodes |-> "Connected"]
  /\ peer_ip = [n \in Nodes |-> Peer(n)]
  /\ cfg_mode = [n \in Nodes |-> "ChaCha20Poly1305"]
  /\ cmd_q = [n \in Nodes |-> <<>>]
  /\ pc = [n \in Nodes |-> "idle"]
  /\ hs = [n \in Nodes |-> DoneHandshake(n)]
  /\ mgr = [n \in Nodes |-> Mounted(n).m]
  /\ net = [n \in Nodes |-> {}]
  /\ kcp = [n \in Nodes |-> <<>>]
  /\ next_key = 3
  /\ enc_log = {}
  /\ nonce_reused = FALSE
  /\ hist = [n \in Nodes |-> [encs |-> 0, decs |-> 0]]
  /\ fds = [n \in Nodes |-> Mounted(n).fds]
  /\ public_ip = [n \in Nodes |-> NoAddr]
  /\ stun_tx = [n \in Nodes |-> 0]
  /\ nat_type = [n \in Nodes |-> "Unknown"]
  /\ last = [n \in Nodes |->
       Ran("ConnectPeer", "none", {"Punching", "Connected"})]

\* what the control loop of node n does in a session
SessionLoop(n) ==
  \/ \E wrote \in BOOLEAN : CmdSendMessage(n, wrote)
  \/ \E wrote \in BOOLEAN, sent \in BOOLEAN : CmdDisconnect(n, wrote, sent)
  \/ ReceiveMessage(n)

\* commands reach a node while its stream is mounted
NextEstablished ==
  \/ \E n \in Nodes, cmd \in {"SendMessage", "Disconnect"} :
        is_connected(mgr[n]) /\ SendCommand(n, cmd)
  \/ \E n \in Nodes : SessionLoop(n)

\* an established session; each control loop keeps running
SpecEstablished ==
  InitEstablished /\ [][NextEstablished]_vars
    /\ \A n \in Nodes : WF_vars(SessionLoop(n))

\* the values the fields of a MessageManager can hold
ManagerStates ==
  [peer_addr : {NoAddr} \cup (Addrs \ {Dialer}), kcp_stream : BOOLEAN,
   cipher : {NoCipher,
             derive_session(1, 2, "ChaCha20Poly1305", 1).cipher},
   tx_nonce : 0..MaxNonce, rx_nonce : 0..MaxNonce]

Statuses == {"Disconnected", "Punching", "Connected"}

\* one manager with any values in its private fields, as code of the module
\* can assign them, and any status in the state; a stream exists only once
\* upgrade_to_kcp has made it
InitManager ==
  /\ status \in [Nodes -> Statuses]
  /\ status[Peer(Dialer)] = "Disconnected"
  /\ peer_ip = [n \in Nodes |-> NoAddr]
  /\ cfg_mode = [n \in Nodes |-> "ChaCha20Poly1305"]
  /\ cmd_q = [n \in Nodes |-> <<>>]
  /\ pc = [n \in Nodes |-> "idle"]
  /\ hs = [n \in Nodes |-> NoHandshake]
  /\ mgr \in [Nodes -> ManagerStates]
  /\ ~mgr[Dialer].kcp_stream
  /\ mgr[Peer(Dialer)] = NewManager
  /\ net = [n \in Nodes |-> {}]
  /\ kcp = [n \in Nodes |-> <<>>]
  /\ next_key = 1
  /\ enc_log = {}
  /\ nonce_reused = FALSE
  /\ hist = [n \in Nodes |->
       [encs |-> mgr[n].tx_nonce, decs |-> mgr[n].rx_nonce]]
  /\ fds = [n \in Nodes |-> NoStreamFds]
  /\ public_ip = [n \in Nodes |-> NoAddr]
  /\ stun_tx = [n \in Nodes |-> 0]
  /\ nat_type = [n \in Nodes |-> "Unknown"]
  /\ last = [n \in Nodes |-> NoRun]

\* the public methods of that manager, called in any order
NextManager ==
  \/ \E ok \in BOOLEAN : CallUpgrade(Dialer, ok)
  \/ \E wrote \in BOOLEAN : CallSendText(Dialer, wrote)
  \/ \E send_bye \in BOOLEAN, wrote \in BOOLEAN, sent \in BOOLEAN :
        CallDisconnect(Dialer, send_bye, wrote, sent)
  \/ CallCloseKcp(Dialer)

SpecManager == InitManager /\ [][NextManager]_vars

\* the frames of a peer that handshakes with one key pair in the node's own
\* mode, or rejects
PeerFrames(n) ==
  {Serialize(Syn(101, cfg_mode[n])), Serialize(SynAck(101)), Serialize(Bye)}

\* the control loop of one node and its web server: connect requests at any
\* time, a peer that answers the handshake, disconnects while the stream is
\* mounted, and the keep-alive ticker with its STUN server
NextLoop ==
  \/ WebConnect(Dialer, ThirdParty, MaxKeys)
  \/ WebConnectBusy(Dialer, ThirdParty)
  \/ CmdConnectPeer(Dialer)
  \/ \E d \in net[Dialer], up \in BOOLEAN : HsRecv(Dialer, d, up)
  \/ \E up \in BOOLEAN : HsTick(Dialer, up)
  \/ AdvanceTime
  \/ \E bytes \in PeerFrames(Dialer) : ThirdPartySend(Dialer, bytes)
  \/ is_connected(mgr[Dialer]) /\ SendCommand(Dialer, "Disconnect")
  \/ \E wrote \in BOOLEAN, sent \in BOOLEAN :
        CmdDisconnect(Dialer, wrote, sent)
  \/ \E sent \in BOOLEAN : KeepAliveTick(Dialer, sent)
  \/ \E d \in net[Dialer] : StunRecv(Dialer, d)
  \/ StunTimeout(Dialer)
  \/ \E tx \in 1..MaxStun, addr \in PublicAddrs :
        StunServerSend(Dialer, tx, addr)

SpecLoop == Init /\ [][NextLoop]_vars

\* the public keys of the key pairs two parties generate
TestKeys == 1..(MaxKeys + 1)

\* two parties that hold a key pair each and the public key of the other
InitCrypto ==
  /\ status = [n \in Nodes |-> "Disconnected"]
  /\ peer_ip = [n \in Nodes |-> NoAddr]
  /\ cfg_mode \in [Nodes -> Modes]
  /\ cmd_q = [n \in Nodes |-> <<>>]
  /\ pc = [n \in Nodes |-> "idle"]
  /\ \E a \in TestKeys, b \in TestKeys :
        hs = [n \in Nodes |->
                [NoHandshake EXCEPT
                   !.my_pub = IF n = Dialer THEN a ELSE b,
                   !.peer_pub_key = IF n = Dialer THEN b ELSE a]]
  /\ mgr = [n \in Nodes |-> NewManager]
  /\ net = [n \in Nodes |-> {}]
  /\ kcp = [n \in Nodes |-> <<>>]
  /\ next_key = 1
  /\ enc_log = {}
  /\ nonce_reused = FALSE
  /\ hist = [n \in Nodes |-> [encs |-> 0, decs |-> 0]]
  /\ fds = [n \in Nodes |-> NoStreamFds]
  /\ public_ip = [n \in Nodes |-> NoAddr]
  /\ stun_tx = [n \in Nodes |-> 0]
  /\ nat_type = [n \in Nodes |-> "Unknown"]
  /\ last = [n \in Nodes |-> NoRun]

\* each party derives its session; the first one encrypts and decrypts with
\* any counter and payload
NextCrypto ==
  \/ \E n \in Nodes : CallDeriveSession(n)
  \/ \E nonce_val \in 0..MaxNonce, plaintext \in Plaintexts :
        CallEncrypt(Dialer, nonce_val, plaintext)
  \/ \E nonce_val \in 0..MaxNonce : CallDecrypt(Dialer, nonce_val)

SpecCrypto == InitCrypto /\ [][NextCrypto]_vars

\* the controller of one node before step 3 of start_controller
InitStartup ==
  /\ status = [n \in Nodes |-> "Disconnected"]
  /\ peer_ip = [n \in Nodes |-> NoAddr]
  /\ cfg_mode = [n \in Nodes |-> "ChaCha20Poly1305"]
  /\ cmd_q = [n \in Nodes |-> <<>>]
  /\ pc = [n \in Nodes |-> IF n = Dialer THEN "boot" ELSE "idle"]
  /\ hs = [n \in Nodes |-> NoHandshake]
  /\ mgr = [n \in Nodes |-> NewManager]
  /\ net = [n \in Nodes |-> {}]
  /\ kcp = [n \in Nodes |-> <<>>]
  /\ next_key = 1
  /\ enc_log = {}
  /\ nonce_reused = FALSE
  /\ hist = [n \in Nodes |-> [encs |-> 0, decs |-> 0]]
  /\ fds = [n \in Nodes |-> NoStreamFds]
  /\ public_ip = [n \in Nodes |-> NoAddr]
  /\ stun_tx = [n \in Nodes |-> 0]
  /\ nat_type = [n \in Nodes |-> "Unknown"]
  /\ last = [n \in Nodes |-> NoRun]

\* the startup of one node: its two STUN resolutions, with servers that
\* answer any request sent so far, late, twice, with any address or without
\* the address attribute, and a host that sends something else
NextStartup ==
  \/ \E sent \in BOOLEAN : StartResolve(Dialer, sent)
  \/ \E d \in net[Dialer], sent \in BOOLEAN : StartupRecv(Dialer, d, sent)
  \/ StartupTimeout(Dialer)
  \/ \E d \in net[Dialer] : VerifyRecv(Dialer, d)
  \/ VerifyTimeout(Dialer)
  \/ \E tx \in 1..(MaxStun + 1), addr \in VerifierAddrs \cup {NoAddr} :
        StunServerSend(Dialer, tx, addr)
  \/ JunkSend(Dialer)

SpecStartup == InitStartup /\ [][NextStartup]_vars

\* ------------------------------------------------------------------ claims
LegalStatusChanges ==
  {<<"Disconnected", "Punching">>, <<"Punching", "Connected">>,
   <<"Punching", "Disconnected">>, <<"Connected", "Disconnected">>}

\* C1: every change of a node's status is Disconnected->Punching,
\* Punching->Connected, Punching->Disconnected or Connected->Disconnected.
\* Refuted: two connect requests accepted while Disconnected leave two
\* ConnectPeer commands on the channel, and the second one starts a handshake
\* from Connected.
C1_OnlyLegalStatusChanges ==
  [][\A n \in Nodes :
       status'[n] # status[n] =>
         <<status[n], status'[n]>> \in LegalStatusChanges]_vars

\* how a handshake can fail: HandshakeError::Timeout, Rejected, ModeMismatch,
\* and the errors of the socket and of bincode
FailureResults == {"Timeout", "Rejected", "ModeMismatch", "Io"}

\* C2: once a handshake has returned a failure of any kind, the node's status
\* is Disconnected.
C2_FailureLeavesDisconnected ==
  \A n \in Nodes :
    hs[n].result \in FailureResults => status[n] = "Disconnected"

\* C2 happens: a handshake that had pinned the peer's key was rejected by a
\* Bye and has returned
C2_Witness ==
  \E n \in Nodes :
    /\ hs[n].result = "Rejected"
    /\ hs[n].peer_pub_key # NoKey
    /\ status[n] = "Disconnected"
    /\ pc[n] = "idle"

SameMode == cfg_mode[1] = cfg_mode[2]

\* C3: two nodes that start a handshake with each other at the same time
\* with the same cipher mode never see a failure, and both handshakes
\* eventually return success with both nodes Connected.
C3_SimultaneousSucceeds ==
  SameMode =>
    /\ [](\A n \in Nodes : hs[n].result \notin FailureResults)
    /\ <>(\A n \in Nodes : hs[n].result = "ok" /\ status[n] = "Connected")

\* C3 happens: both handshakes have returned success, each on the other's key
C3_Witness ==
  /\ SameMode
  /\ \A n \in Nodes : hs[n].result = "ok" /\ status[n] = "Connected"
  /\ hs[1].peer_pub_key = hs[2].my_pub
  /\ hs[2].peer_pub_key = hs[1].my_pub

\* C4 as stated: with different cipher modes, once both handshakes have
\* returned both have failed with ModeMismatch.  Refuted: a node that reads
\* the peer's Syn before its own first tick fails without ever sending a Syn,
\* and the peer times out.
C4_BothModeMismatch ==
  (~SameMode /\ \A n \in Nodes : hs[n].result # "none") =>
     \A n \in Nodes : hs[n].result = "ModeMismatch"

\* what C4 can promise of one node while the modes differ: no success, and
\* ModeMismatch exactly when it has read a Syn of the peer, Timeout otherwise
ModeMismatchOutcome(n) ==
  /\ status[n] # "Connected"
  /\ hs[n].result \in {"none", "ModeMismatch", "Timeout"}
  /\ hs[n].result = "ModeMismatch" <=>
       (hs[n].result # "none" /\ hs[n].peer_pub_key # NoKey)

\* C4, amended: when two nodes handshake with each other with different
\* cipher modes and nothing is lost, neither succeeds; a node that reads a Syn
\* of the peer fails with ModeMismatch, a node whose peer stopped before
\* sending one fails with Timeout; both eventually fail, at least one of them
\* with ModeMismatch.
C4_NoSuccessOnMismatch ==
  ~SameMode =>
    /\ [](\A n \in Nodes : ModeMismatchOutcome(n))
    /\ <>(/\ \A n \in Nodes :
               hs[n].result \in {"ModeMismatch", "Timeout"}
               /\ status[n] = "Disconnected"
          /\ \E n \in Nodes : hs[n].result = "ModeMismatch")

\* C4 happens: one handshake has failed with ModeMismatch and the other has
\* timed out
C4_Witness ==
  /\ ~SameMode
  /\ \E n \in Nodes :
       /\ hs[n].result = "ModeMismatch"
       /\ \E m \in Nodes \ {n} : hs[m].result = "Timeout"
  /\ \A n \in Nodes : status[n] = "Disconnected"

\* C5: a handshake returns success only from a state in which it has received
\* a SynAck and sent one, the linger phase has begun and its deadline has
\* passed.
C5_SuccessNeedsBothAcksAndLinger ==
  [][\A n \in Nodes :
       (pc[n] = "hs" /\ hs'[n].result = "ok") =>
          /\ hs[n].received_syn_ack /\ hs'[n].received_syn_ack
          /\ hs[n].sent_syn_ack /\ hs'[n].sent_syn_ack
          /\ hs[n].linger_until # NoDeadline
          /\ hs[n].linger_until >= LingerTicks
          /\ hs[n].elapsed >= hs[n].linger_until]_vars

\* C5 happens: a handshake has returned success
C5_Witness ==
  \E n \in Nodes :
    hs[n].result = "ok" /\ status[n] = "Connected" /\ mgr[n].cipher # NoCipher

\* a Syn or SynAck from the handshake's peer_addr whose key is not the pinned
\* one
KeyChangingFrame(n, d) ==
  /\ d.src = hs[n].peer_addr
  /\ Deserialize(d.bytes).kind \in {"Syn", "SynAck"}
  /\ hs[n].peer_pub_key # NoKey
  /\ Deserialize(d.bytes).public_key # hs[n].peer_pub_key

\* the node's handshake was due to end whatever it received: its timeout or
\* its linger deadline has passed
DueToEnd(n) ==
  \/ hs[n].elapsed > TimeoutTicks
  \/ hs[n].linger_until # NoDeadline /\ hs[n].elapsed >= hs[n].linger_until

SessionOf(n) ==
  derive_session(hs[n].my_pub, hs[n].peer_pub_key, cfg_mode[n], hs[n].my_pub)

\* C7: when both nodes have completed a handshake with each other, each has
\* pinned the key the other generated for its successful attempt, and both
\* hold the same session key and fingerprint.  Refuted: frames of a peer's
\* earlier, failed attempt are still answered and still waiting in the
\* sockets, and a handshake pins the key they carry.
C7_SameSession ==
  (\A n \in Nodes : hs[n].result = "ok" /\ hs[n].peer_addr \in Nodes \ {n}) =>
     /\ hs[1].peer_pub_key = hs[2].my_pub
     /\ hs[2].peer_pub_key = hs[1].my_pub
     /\ SessionOf(1).cipher.secret = SessionOf(2).cipher.secret
     /\ SessionOf(1).fingerprint = SessionOf(2).fingerprint
     /\ mgr[1].cipher = mgr[2].cipher

\* C8: no two encryptions under one session key, by either peer, use the
\* same nonce.  Refuted: both peers derive the same key and both count their
\* nonces from 0, so each peer's first frame is encrypted with nonce 0.
C8_NonceUnique == ~nonce_reused

\* C9: while a session is installed, tx_nonce is the number of encryptions
\* and rx_nonce the number of successful decryptions made since it was
\* installed: both start at 0, grow by one each time and change at no other
\* time.
C9_NoncesCount ==
  \A n \in Nodes :
    mgr[n].cipher # NoCipher =>
      /\ mgr[n].tx_nonce = hist[n].encs
      /\ mgr[n].rx_nonce = hist[n].decs

\* C9 happens: a node with a session has both encrypted and decrypted, and
\* one of its encrypted frames never reached the stream
C9_Witness ==
  \E n \in Nodes :
    /\ mgr[n].cipher # NoCipher
    /\ mgr[n].tx_nonce = 2
    /\ mgr[n].rx_nonce >= 1
    /\ \E m \in Nodes \ {n} : Len(kcp[m]) + mgr[m].rx_nonce < 2 /\ mgr[m].kcp_stream

\* the control loop of node n reads a frame that fails to decrypt
ReadsUndecryptable(n) ==
  /\ pc[n] = "idle"
  /\ mgr[n].kcp_stream
  /\ kcp[n] # <<>>
  /\ receive_message(mgr[n], Head(kcp[n])).err = "Decryption failure"
  /\ kcp'[n] = Tail(kcp[n])

\* C10: a step in which a node reads a frame that fails to decrypt leaves the
\* node disconnected: no stream, no cipher, status Disconnected.  Refuted: the
\* control loop logs the error and keeps the session.
C10_DecryptFailureDisconnects ==
  [][\A n \in Nodes :
       ReadsUndecryptable(n) =>
          /\ status'[n] = "Disconnected"
          /\ ~mgr'[n].kcp_stream
          /\ mgr'[n].cipher = NoCipher]_vars

\* the control loop of node n reads a frame that decrypts to a Bye
ReadsBye(n) ==
  /\ pc[n] = "idle"
  /\ is_connected(mgr[n])
  /\ kcp[n] # <<>>
  /\ receive_message(mgr[n], Head(kcp[n])).err = "none"
  /\ StreamKind(receive_message(mgr[n], Head(kcp[n])).plaintext) = "Bye"
  /\ Len(kcp'[n]) < Len(kcp[n])
  /\ last'[n].op = "receive_message"

\* C11: the step in which a node in a session reads a Bye from the stream
\* leaves it with no stream (its descriptor closed), no cipher, nonces 0, no
\* peer address and status Disconnected, and sends nothing: no frame joins the
\* peer's stream and no datagram any socket.
C11_ByeTearsDownSilently ==
  [][\A n \in Nodes :
       ReadsBye(n) =>
          /\ mgr'[n] = NewManager
          /\ fds'[n] = NoStreamFds
          /\ status'[n] = "Disconnected"
          /\ net' = net
          /\ \A m \in Nodes \ {n} : kcp'[m] = kcp[m]]_vars

\* C11 happens: a node that was in a session has read the Bye of its peer
\* and is torn down, and the peer, which sent that Bye, has nothing to read
C11_Witness ==
  \E n \in Nodes :
    /\ last[n] = Ran("receive_message", "Bye", {clear_chat, "Disconnected"})
    /\ status[n] = "Disconnected"
    /\ mgr[n] = NewManager
    /\ last[Peer(n)].res = "Sent Encrypted Bye via KCP"
    /\ kcp[Peer(n)] = <<>>
    /\ net[Peer(n)] = {}

\* node n has executed a Disconnect command on a session
DisconnectedByCommand(n) ==
  /\ last[n].op = "Disconnect"
  /\ last[n].res \notin {"no peer", "not requested"}

\* C12: when a node of an established session has executed disconnect while
\* its peer is still in the session, the peer is eventually Disconnected.
\* Refuted: a Bye whose stream write fails goes out as a raw UDP frame, which
\* a node in a session never reads, and a Bye written after an earlier failed
\* write carries a nonce the peer does not expect: it fails to decrypt and is
\* only logged.  The peer stays Connected.
C12_PeerSeesBye ==
  \A n \in Nodes :
    (DisconnectedByCommand(n)
       /\ status[Peer(n)] = "Connected" /\ is_connected(mgr[Peer(n)]))
      ~> (status[Peer(n)] = "Disconnected")

\* the manager's two public disconnects
Disconnects == {"disconnect", "disconnect_on_bye_received"}

\* C13: after disconnect() or disconnect_on_bye_received() has returned,
\* whatever the manager held before, the manager has no stream, no cipher,
\* both nonces at 0 and no peer address, the stream's descriptor is closed,
\* ClearChat has been published and the status is Disconnected.
C13_DisconnectResets ==
  \A n \in Nodes :
    last[n].op \in Disconnects =>
      /\ ~mgr[n].kcp_stream
      /\ mgr[n].cipher = NoCipher
      /\ mgr[n].tx_nonce = 0 /\ mgr[n].rx_nonce = 0
      /\ mgr[n].peer_addr = NoAddr
      /\ fds[n].kcp = NoFd
      /\ clear_chat \in last[n].events
      /\ status[n] = "Disconnected"

\* C13 happens: disconnect() ran on a manager with a peer, a stream and a
\* cipher (its Bye went through the stream) and left a manager without them
C13_Witness ==
  /\ last[Dialer].op = "disconnect"
  /\ last[Dialer].res = "Sent Encrypted Bye via KCP"
  /\ mgr[Dialer] = NewManager
  /\ clear_chat \in last[Dialer].events

\* the control loop of n takes a Disconnect command off the channel and
\* runs disconnect()
RunsDisconnect(n) ==
  /\ cmd_q[n] # <<>>
  /\ Head(cmd_q[n]) = "Disconnect"
  /\ cmd_q'[n] = Tail(cmd_q[n])
  /\ last'[n].op = "Disconnect"

C15_KeepAliveOnlyDisconnected ==
  [][\A n \in Nodes :
       (stun_tx'[n] # stun_tx[n] \/ pc[n] = "stun" \/ pc'[n] = "stun") =>
         (status[n] = "Disconnected" /\ status'[n] = "Disconnected")]_vars

\* C15 happens: the keep-alive ticked while the node was Connected with its
\* stream mounted, and was skipped
C15_Witness ==
  \E n \in Nodes :
    /\ last[n].op = "keep_alive"
    /\ last[n].res = "skipped"
    /\ status[n] = "Connected"
    /\ is_connected(mgr[n])
    /\ pc[n] = "idle"

\* the control loop of n is receiving on the socket it bound: inside
\* handshake, or inside the keep-alive's resolve_public_ip
ReceivesOnSocket(n) == pc[n] \in {"hs", "stun"}

\* C16: the handshake and the STUN keep-alive receive on the original
\* socket only while no reliable stream is mounted.
\* Refuted: a second ConnectPeer command left on the channel starts a
\* handshake on the original socket while the stream of the first session
\* is mounted and reads its duplicate.
C16_OneConsumer ==
  \A n \in Nodes : ReceivesOnSocket(n) => ~is_connected(mgr[n])

\* C17: through every upgrade, close_kcp and disconnect, the descriptor of
\* the socket the process bound stays open; the stream owns another
\* descriptor, and tearing the stream down closes that one and nothing else.
C17_OriginalSocketStays ==
  \A n \in Nodes :
    /\ ClientFd \in fds[n].open
    /\ fds[n].kcp # ClientFd
    /\ fds[n].open = IF is_connected(mgr[n]) THEN {ClientFd, fds[n].kcp}
                                              ELSE {ClientFd}
    /\ is_connected(mgr[n]) <=> fds[n].kcp # NoFd

\* C17 happens: disconnect() sent its Bye through a mounted stream and then
\* tore the stream down, leaving only the bound socket open
C17_Witness ==
  /\ last[Dialer].op = "disconnect"
  /\ last[Dialer].res = "Sent Encrypted Bye via KCP"
  /\ ~is_connected(mgr[Dialer])
  /\ fds[Dialer].open = {ClientFd}

\* C18: upgrade_to_kcp called on a manager without a peer_addr returns the
\* error "Handshake not established." and changes neither the manager nor
\* the descriptors: no stream, no duplicate of the socket, is_connected()
\* false.
C18_UpgradeNeedsHandshake ==
  [][\A n \in Nodes :
       (last'[n].op = "upgrade_to_kcp" /\ mgr[n].peer_addr = NoAddr) =>
         /\ last'[n].res = "Handshake not established."
         /\ mgr'[n] = mgr[n]
         /\ fds'[n] = fds[n]
         /\ fds'[n].open = {ClientFd}
         /\ ~is_connected(mgr'[n])]_vars

\* C18 happens: upgrade_to_kcp has just been refused on a manager that has a
\* cipher but no peer_addr
C18_Witness ==
  /\ last[Dialer].op = "upgrade_to_kcp"
  /\ last[Dialer].res = "Handshake not established."
  /\ mgr[Dialer].peer_addr = NoAddr
  /\ mgr[Dialer].cipher # NoCipher
  /\ ~is_connected(mgr[Dialer])

\* C19: send_text on a manager without a stream fails with NotConnected
\* ("KCP stream not established"), and on a manager with a stream but
\* without a cipher with NotInitialized ("Encryption not initialized"); in
\* both cases nothing is encrypted or written and tx_nonce keeps its value.
C19_SendTextPreconditions ==
  [][\A n \in Nodes :
       (last'[n].op = "send_text"
          /\ (~is_connected(mgr[n]) \/ mgr[n].cipher = NoCipher)) =>
         /\ last'[n].res = IF is_connected(mgr[n]) THEN "NotInitialized"
                                                  ELSE "NotConnected"
         /\ mgr'[n] = mgr[n]
         /\ kcp' = kcp
         /\ net' = net
         /\ enc_log' = enc_log]_vars

\* C19 happens: send_text has just been refused on a manager whose stream is
\* mounted and whose cipher is missing
C19_Witness ==
  /\ last[Dialer].op = "send_text"
  /\ last[Dialer].res = "NotInitialized"
  /\ is_connected(mgr[Dialer])
  /\ mgr[Dialer].cipher = NoCipher

\* post_peer_ip answers a connect request to node n
AnswersConnect(n) == last'[n] # last[n] /\ last'[n].op = "post_peer_ip"

\* C20: a connect request answered while the status is Punching or
\* Connected gets 400, and neither peer_ip nor the command channel changes.
C20_BusyConnectRejected ==
  [][\A n \in Nodes :
       (AnswersConnect(n) /\ status[n] # "Disconnected") =>
         /\ last'[n].res = "400"
         /\ peer_ip' = peer_ip
         /\ cmd_q' = cmd_q
         /\ status' = status]_vars

\* C20 happens: a connect request was refused while the handshake of an
\* earlier one is running
C20_Witness ==
  \E n \in Nodes :
    /\ last[n].op = "post_peer_ip"
    /\ last[n].res = "400"
    /\ status[n] = "Punching"
    /\ pc[n] = "hs"
    /\ peer_ip[n] # NoAddr

\* the datagram is a STUN message
ParsesAsStun(bytes) == Len(bytes) = 3 /\ bytes[1] = 3

\* the datagram is a STUN message with transaction id tx and an
\* XOR-MAPPED-ADDRESS
GoodStun(tx, bytes) ==
  ParsesAsStun(bytes) /\ bytes[2] = tx /\ bytes[3] # NoAddr

\* the step gave the controller of n an address: the first resolution stored
\* it as public_ip, or get_nat_type compared it and told Cone or Symmetric
GotAddress(n, addr) ==
  IF pc[n] = "resolve"
    THEN public_ip'[n] # NoAddr /\ public_ip'[n] = addr
    ELSE nat_type'[n] = (IF addr = public_ip[n] THEN "Cone" ELSE "Symmetric")

FailedToResolve(n) ==
  public_ip'[n] = public_ip[n] /\ nat_type'[n] = "Unknown"

\* C21: a resolve_public_ip that was waiting returns on a timeout or on one
\* datagram, which it takes off the socket; it returns the address in that
\* datagram exactly when the datagram is a STUN message with the transaction
\* id of the request sent last and an XOR-MAPPED-ADDRESS; a STUN message with
\* another transaction id gives SecurityMismatch, and no second request is
\* sent.
C21_ResolveChecksTransaction ==
  [][\A n \in Nodes :
       (pc[n] \in {"resolve", "verify"} /\ pc'[n] # pc[n]) =>
         \/ /\ net' = net
            /\ last'[n].res = "StunTimeout"
            /\ FailedToResolve(n)
            /\ stun_tx' = stun_tx
         \/ \E d \in net[n] :
              /\ net'[n] = net[n] \ {d}
              /\ IF GoodStun(stun_tx[n], d.bytes)
                   THEN GotAddress(n, d.bytes[3])
                   ELSE FailedToResolve(n) /\ stun_tx' = stun_tx
                          /\ pc'[n] = "idle"
              /\ (ParsesAsStun(d.bytes) /\ d.bytes[2] # stun_tx[n]) =>
                   last'[n].res = "SecurityMismatch"]_vars

\* C21 happens: get_nat_type's resolution read the late answer to the first
\* request and returned SecurityMismatch after one request
C21_Witness ==
  /\ last[Dialer] = Ran("get_nat_type", "SecurityMismatch", {"Disconnected"})
  /\ pc[Dialer] = "idle"
  /\ stun_tx[Dialer] = 2
  /\ public_ip[Dialer] # NoAddr
  /\ nat_type[Dialer] = "Unknown"

\* get_nat_type has returned to the controller of n in this step
NatTypeReturned(n) ==
  /\ last'[n] # last[n]
  /\ last'[n].op = "get_nat_type"
  /\ last'[n].res # "waiting"

FingerprintOf(n) ==
  derive_session(hs[n].my_pub, hs[n].peer_pub_key, cfg_mode[n],
                 hs[n].my_pub).fingerprint

\* C23: two parties that call derive_session with their public keys swapped
\* (each one's own key is the other's peer key) compute the same fingerprint,
\* for every pair of keys and whatever modes they use.
C23_FingerprintSymmetric ==
  (/\ hs[1].my_pub = hs[2].peer_pub_key
   /\ hs[2].my_pub = hs[1].peer_pub_key) =>
     /\ FingerprintOf(1) = FingerprintOf(2)
     /\ \A pkA \in TestKeys, pkB \in TestKeys, mode \in Modes :
          derive_session(pkA, pkB, mode, pkA).fingerprint
            = derive_session(pkB, pkA, mode, pkB).fingerprint

\* C23 happens: both parties have derived their sessions, the first one
\* holding the larger key
C23_Witness ==
  /\ \A n \in Nodes : last[n].op = "derive_session" /\ mgr[n].cipher # NoCipher
  /\ hs[1].my_pub = hs[2].peer_pub_key
  /\ hs[2].my_pub = hs[1].peer_pub_key
  /\ hs[1].my_pub > hs[2].my_pub

C25_FailureMessagePublished ==
  \A n \in Nodes :
    (last[n].op = "ConnectPeer" /\ last[n].res \in FailureResults) =>
      \E m \in last[n].said :
        m \in {ErrorMessage(last[n].res), ConnectionFailed(last[n].res)}

\* the state record of node n as the web interface serves it
StateRecord(n) == <<status[n], public_ip[n], peer_ip[n], nat_type[n]>>

\* C26: every step that changes status, public_ip, peer_ip or nat_type of a
\* node is the run of a handler that published an event on the bus with it.
C26_MutationsPublish ==
  [][\A n \in Nodes :
       StateRecord(n)' # StateRecord(n) => last'[n].events # {}]_vars

\* the handshake of node n takes datagram d off its socket in this step
TakesDatagram(n, d) ==
  /\ pc[n] = "hs"
  /\ d \in net[n]
  /\ net'[n] = net[n] \ {d}

\* C27: a step in which a running handshake takes a datagram whose sender is
\* not peer_addr leaves the pinned key, both flags and the linger deadline as
\* they were, sends nothing, and ends the handshake only if it was due to end
\* by its timeout or its linger deadline.
C27_WrongSenderIgnored ==
  [][\A n \in Nodes : \A d \in net[n] :
       (TakesDatagram(n, d) /\ d.src # hs[n].peer_addr) =>
         /\ hs'[n].peer_pub_key = hs[n].peer_pub_key
         /\ hs'[n].received_syn_ack = hs[n].received_syn_ack
         /\ hs'[n].sent_syn_ack = hs[n].sent_syn_ack
         /\ pc'[n] = "hs" => hs'[n].linger_until = hs[n].linger_until
         /\ \A m \in Nodes \ {n} : net'[m] = net[m]
         /\ pc'[n] # "hs" =>
              (DueToEnd(n) /\ hs'[n].result \in {"Timeout", "ok"})]_vars

\* C27 happens: a handshake that has pinned its peer's key has dropped a
\* datagram for its sender and goes on
C27_Witness ==
  \E n \in Nodes :
    /\ pc[n] = "hs"
    /\ hs[n].sender_ignored
    /\ hs[n].peer_pub_key # NoKey

\* C28: a step in which a running handshake takes a Bye of its peer off the
\* socket, in whatever phase, linger included, ends the handshake with the
\* Rejected error.
C28_ByeRejects ==
  [][\A n \in Nodes : \A d \in net[n] :
       (/\ TakesDatagram(n, d)
        /\ d.src = hs[n].peer_addr
        /\ Deserialize(d.bytes).kind = "Bye") =>
         /\ pc'[n] = "idle"
         /\ hs'[n].result = "Rejected"
         /\ last'[n].op = "ConnectPeer"
         /\ last'[n].res = "Rejected"]_vars

\* C28 happens: a handshake that had received and sent its SynAck, and so was
\* in its linger phase, has been rejected by a Bye
C28_Witness ==
  \E n \in Nodes :
    /\ hs[n].result = "Rejected"
    /\ hs[n].received_syn_ack
    /\ hs[n].sent_syn_ack
    /\ pc[n] = "idle"

\* the send interval of node n's handshake fires in this step
Ticks(n) ==
  /\ pc[n] = "hs"
  /\ hs[n].tick_due
  /\ ~hs'[n].tick_due
  /\ net'[n] = net[n]

Lingering(n) == hs[n].linger_until # NoDeadline

\* the datagrams of node n that this step puts on the peer's socket
NewFrom(n) ==
  {d \in UNION {net'[m] \ net[m] : m \in Nodes \ {n}} : d.src = n}

\* node n's frame is on its peer's socket after this step
Transmitted(n, msg) ==
  /\ hs[n].peer_addr \in Nodes
  /\ Datagram(n, msg) \in net'[hs[n].peer_addr]
  /\ NewFrom(n) \subseteq {Datagram(n, msg)}

\* C29: a tick of a running handshake transmits a Syn with the local public
\* key and mode exactly when received_syn_ack is false and the linger phase
\* has not begun; a tick of the linger phase transmits one SynAck with the
\* local key; any other tick transmits nothing; and once received_syn_ack is
\* true or the linger phase has begun this stays so while the handshake runs
\* and no step of it transmits a Syn.
C29_TickTransmits ==
  [][\A n \in Nodes :
       pc[n] = "hs" =>
         /\ Ticks(n) =>
              IF Lingering(n)
                THEN Transmitted(n, SynAck(hs[n].my_pub))
              ELSE IF ~hs[n].received_syn_ack
                THEN Transmitted(n, Syn(hs[n].my_pub, cfg_mode[n]))
              ELSE NewFrom(n) = {}
         /\ (hs[n].received_syn_ack \/ Lingering(n)) =>
              /\ \A d \in NewFrom(n) : Deserialize(d.bytes).kind # "Syn"
              /\ pc'[n] = "hs" =>
                   (hs'[n].received_syn_ack \/ Lingering(n)')]_vars

\* C29 happens: a handshake in its linger phase has taken a tick of that
\* phase and its SynAck is on the peer's socket
C29_Witness ==
  \E n \in Nodes :
    /\ pc[n] = "hs"
    /\ Lingering(n)
    /\ hs[n].elapsed > hs[n].linger_until - LingerTicks
    /\ ~hs[n].tick_due
    /\ hs[n].peer_addr \in Nodes
    /\ Datagram(n, SynAck(hs[n].my_pub)) \in net[hs[n].peer_addr]

\* datagram d is a Syn of node n's peer that the Syn arm accepts: its key is
\* the pinned one or none is pinned yet, and its mode is the local mode
AcceptableSyn(n, d) ==
  /\ d.src = hs[n].peer_addr
  /\ Deserialize(d.bytes).kind = "Syn"
  /\ ~KeyChanged(hs[n].peer_pub_key, Deserialize(d.bytes).public_key)
  /\ Deserialize(d.bytes).cipher_mode = cfg_mode[n]

\* C30: a step in which a running handshake takes such a Syn off the socket,
\* in whatever phase, linger included, puts a SynAck with the local public
\* key on the peer's socket, pins the key and leaves sent_syn_ack set; the
\* handshake ends in that step only if its timeout or linger deadline had
\* passed.
C30_SynAnswered ==
  [][\A n \in Nodes : \A d \in net[n] :
       (TakesDatagram(n, d) /\ AcceptableSyn(n, d)) =>
         /\ Transmitted(n, SynAck(hs[n].my_pub))
         /\ hs'[n].sent_syn_ack
         /\ hs'[n].peer_pub_key = Deserialize(d.bytes).public_key
         /\ pc'[n] # "hs" =>
              (DueToEnd(n) /\ hs'[n].result \in {"Timeout", "ok"})]_vars

\* C30 happens: a handshake whose linger phase has just begun, and which has
\* taken no tick in it, has pinned the key of a Syn of its peer and the SynAck
\* of its Syn arm is on the peer's socket
C30_Witness ==
  \E n \in Nodes :
    /\ pc[n] = "hs"
    /\ Lingering(n)
    /\ hs[n].elapsed = hs[n].linger_until - LingerTicks
    /\ hs[n].tick_due
    /\ hs[n].sent_syn_ack
    /\ hs[n].peer_pub_key # NoKey
    /\ hs[n].peer_addr \in Nodes
    /\ Datagram(n, SynAck(hs[n].my_pub)) \in net[hs[n].peer_addr]

\* C31: a handshake returns success only from a state in which its timeout
\* has not passed; a tick taken after the timeout has passed ends it with
\* Timeout, also when received_syn_ack and sent_syn_ack both hold and the
\* linger phase has begun.
C31_TimeoutBeatsLinger ==
  [][\A n \in Nodes :
       pc[n] = "hs" =>
         /\ hs'[n].result = "ok" => ~TimedOut(hs[n])
         /\ (Ticks(n) /\ TimedOut(hs[n])) =>
              /\ pc'[n] = "idle"
              /\ hs'[n].result = "Timeout"
              /\ status'[n] = "Disconnected"]_vars

\* C31 happens: a handshake that had received and sent its SynAck has
\* returned Timeout
C31_Witness ==
  \E n \in Nodes :
    /\ hs[n].result = "Timeout"
    /\ hs[n].received_syn_ack
    /\ hs[n].sent_syn_ack
    /\ status[n] = "Disconnected"

\* C32: a running handshake is never older than its timeout and the half
\* second to its next tick, and every handshake that runs eventually returns,
\* whatever the peer and other hosts send and however long they go on.
C32_HandshakeReturns ==
  \A n \in Nodes :
    /\ [](pc[n] = "hs" => hs[n].elapsed <= TimeoutTicks + 1)
    /\ (pc[n] = "hs") ~> (pc[n] # "hs" /\ hs[n].result # "none")

\* C32 happens: a handshake that never pinned a key has timed out while a
\* datagram of another sender was waiting on its socket
C32_Witness ==
  \E n \in Nodes :
    /\ hs[n].result = "Timeout"
    /\ hs[n].peer_pub_key = NoKey
    /\ pc[n] = "idle"
    /\ \E d \in net[n] : d.src = Attacker

\* datagram d is a Syn of node n's peer that names node n's own mode
MatchingSyn(n, d) ==
  /\ d.src = hs[n].peer_addr
  /\ Deserialize(d.bytes).kind = "Syn"
  /\ Deserialize(d.bytes).cipher_mode = cfg_mode[n]

\* C33: within a handshake sent_syn_ack is set only by a step that takes a
\* Syn of the peer naming the local mode off the socket, whatever SynAck
\* frames arrive; success is returned, and the status set to Connected, only
\* with sent_syn_ack set; and a step that takes a Syn of the peer naming
\* another mode never sets it.
C33_NoSuccessWithoutMatchingSyn ==
  [][\A n \in Nodes :
       pc[n] = "hs" =>
         /\ (~hs[n].sent_syn_ack /\ hs'[n].sent_syn_ack) =>
              \E d \in net[n] : TakesDatagram(n, d) /\ MatchingSyn(n, d)
         /\ (hs'[n].result = "ok" \/ status'[n] = "Connected") =>
              hs[n].sent_syn_ack
         /\ \A d \in net[n] :
              (/\ TakesDatagram(n, d)
               /\ d.src = hs[n].peer_addr
               /\ Deserialize(d.bytes).kind = "Syn"
               /\ ~MatchingSyn(n, d)) =>
                 hs'[n].sent_syn_ack = hs[n].sent_syn_ack]_vars

\* C33 happens: a handshake that had received a SynAck, and no Syn it could
\* accept, has failed on a Syn of another mode
C33_Witness ==
  \E n \in Nodes :
    /\ hs[n].result = "ModeMismatch"
    /\ hs[n].received_syn_ack
    /\ ~hs[n].sent_syn_ack
    /\ status[n] = "Disconnected"

\* C34: when two nodes handshake with each other in the same mode, it never
\* happens that the handshake of one has returned success and the handshake
\* of the other Timeout.
C34_BothConverge ==
  SameMode =>
    \A n \in Nodes : \A m \in Nodes \ {n} :
      ~(hs[n].result = "ok" /\ hs[m].result = "Timeout")

\* C35: whenever a node's status is Connected, its message manager holds a
\* reliable stream, a cipher and a peer address.
C35_ConnectedHasStream ==
  \A n \in Nodes :
    status[n] = "Connected" =>
      /\ is_connected(mgr[n])
      /\ mgr[n].cipher # NoCipher
      /\ mgr[n].peer_addr # NoAddr

\* the control loop of node n enters handshake in this step
StartsHandshake(n) == pc[n] = "idle" /\ pc'[n] = "hs"

\* C36: every handshake the control loop starts, it starts while the status
\* is Disconnected and towards the peer address in the state record.
C36_HandshakeStartsDisconnected ==
  [][\A n \in Nodes :
       StartsHandshake(n) =>
         /\ status[n] = "Disconnected"
         /\ hs'[n].peer_addr = peer_ip[n]]_vars

\* C37: in an established session, the frame at the head of a node's stream,
\* which is the next one it decrypts, was encrypted under the nonce that
\* equals the node's rx_nonce.
C37_NoncesAligned ==
  \A n \in Nodes :
    (/\ mgr[n].kcp_stream
     /\ mgr[n].cipher # NoCipher
     /\ kcp[n] # <<>>
     /\ Head(kcp[n]).secret = mgr[n].cipher.secret
     /\ Head(kcp[n]).algo = mgr[n].cipher.algo) =>
       Head(kcp[n]).nonce = mgr[n].rx_nonce

\* one node dials a scripted peer while the signal handler or a request
\* handler sends Disconnect at any time; the control loop takes its commands
\* one at a time, the handshake's ticker and the clock keep running
NextDisconnect ==
  \/ CmdConnectPeer(Dialer)
  \/ \E d \in net[Dialer], up \in BOOLEAN : HsRecv(Dialer, d, up)
  \/ \E up \in BOOLEAN : HsTick(Dialer, up)
  \/ AdvanceTime
  \/ \E bytes \in ThirdPartyBytes : PeerSend(Dialer, bytes)
  \/ SendCommand(Dialer, "Disconnect")
  \/ \E wrote \in BOOLEAN, sent \in BOOLEAN :
        CmdDisconnect(Dialer, wrote, sent)

SpecDisconnect ==
  /\ InitPeer
  /\ [][NextDisconnect]_vars
  /\ WF_vars(CmdConnectPeer(Dialer))
  /\ WF_vars(\E up \in BOOLEAN : HsTick(Dialer, up))
  /\ WF_vars(AdvanceTime)
  /\ WF_vars(\E wrote \in BOOLEAN, sent \in BOOLEAN :
                CmdDisconnect(Dialer, wrote, sent))

\* C38: a Disconnect command waiting on the command channel is eventually
\* taken by the control loop and leaves the status Disconnected, also when it
\* was sent while the handshake was running.
C38_DisconnectExecuted ==
  \A n \in Nodes :
    (Count(cmd_q[n], "Disconnect") > 0) ~>
      (/\ Count(cmd_q[n], "Disconnect") = 0
       /\ last[n].op = "Disconnect"
       /\ status[n] = "Disconnected")

\* the peer's end of node n's stream is closed and nothing is left to read
PeerClosed(n) == ~mgr[Peer(n)].kcp_stream /\ kcp[n] = <<>>

\* receive_message when stream.read returns 0: Ok(0), before any decryption
ReadClosed(m) == [m |-> m, plaintext |-> <<>>, err |-> "none"]

\* the control loop's receive arm on a closed stream: Ok(0), the empty slice
\* is no StreamMessage, the failure is logged and the loop goes on
ReceiveClosed(n) ==
  /\ pc[n] = "idle"
  /\ is_connected(mgr[n])
  /\ PeerClosed(n)
  /\ LET r == ReadClosed(mgr[n]) IN
     /\ StreamKind(r.plaintext) = "Invalid"
     /\ mgr' = [mgr EXCEPT ![n] = r.m]
     /\ last' = [last EXCEPT ![n] = Ran("receive_message", "Ok(0)", {})]
  /\ UNCHANGED <<status, peer_ip, cfg_mode, cmd_q, pc, hs, net, kcp, next_key,
                 crypto_vars, fds, stun_vars>>

\* an established session in which a node also reads the end of the stream
NextClosed ==
  \/ NextEstablished
  \/ \E n \in Nodes : ReceiveClosed(n)

SpecClosed ==
  /\ InitEstablished
  /\ [][NextClosed]_vars
  /\ \A n \in Nodes : WF_vars(SessionLoop(n) \/ ReceiveClosed(n))

\* C39: after receive_message has returned 0 on a stream the peer closed, the
\* node eventually has no stream mounted and its status is Disconnected.
C39_ClosedStreamLeaves ==
  \A n \in Nodes :
    (last[n] = Ran("receive_message", "Ok(0)", {})) ~>
      (~mgr[n].kcp_stream /\ status[n] = "Disconnected")

====
